---------------------------- MODULE Spec2Model ----------------------------
(***************************************************************************)
(* Off-chain data custody, consent gating and ledger anchoring of the      *)
(* identity-blockchain repository (src/off-chain).                         *)
(*                                                                         *)
(* The Python services are modelled as a state machine: the record store   *)
(* (one file per owner address), the username directory, the ledger state  *)
(* the services read and write (data pointer, profile classification,      *)
(* consent records, block time) and one request slot per running call of   *)
(* DataSharingClient.  A call is split at its external calls, in source    *)
(* order; every remote call may fail, which the environment decides.       *)
(***************************************************************************)
EXTENDS Integers, Sequences, FiniteSets, TLC

(***************************************************************************)
(* Bounds of the model.                                                    *)
(***************************************************************************)
\* Block timestamps range over 0..MaxTime.
MaxTime == 2
\* The wall clock of the process ranges over 0..MaxClock.
MaxClock == 3

(***************************************************************************)
(* Identities.  An account is a ledger identity; a textual address is one  *)
(* spelling of it.  Python compares and hashes addresses as strings, so    *)
(* the lower-case and the checksum spelling of one account are different   *)
(* keys wherever the code does not normalise them.                         *)
(***************************************************************************)
OwnerAcct == "acctA"
RequesterAcct == "acctB"
ValidatorAcct == "acctV"
Accounts == {OwnerAcct, RequesterAcct, ValidatorAcct}

OwnerLower == "0xaaaa"
OwnerChecksum == "0xAaAa"
RequesterLower == "0xbbbb"
\* Starts with 0x, but is no 20-byte hex string.
BadAddr == "0xbad"
WellFormed == {OwnerLower, OwnerChecksum, RequesterLower}
Addresses == WellFormed \cup {BadAddr}

AcctOf(a) ==
    CASE a = OwnerLower -> OwnerAcct
      [] a = OwnerChecksum -> OwnerAcct
      [] a = RequesterLower -> RequesterAcct
      [] OTHER -> "none"

\* Web3.to_checksum_address: the checksum spelling, or ValueError.
to_checksum_address(a) ==
    IF a \in WellFormed
    THEN [ok |-> TRUE,
          val |-> IF AcctOf(a) = OwnerAcct THEN OwnerChecksum ELSE RequesterLower]
    ELSE [ok |-> FALSE, val |-> ""]

\* Account.from_key(private_key).address: a key is named by its account.
NoKey == "none"
EmptyKey == ""
Keys == {OwnerAcct, RequesterAcct, ValidatorAcct}

(***************************************************************************)
(* Financial records.  Money is in thousands, a monthly payment in          *)
(* hundreds; percentages are integers.                                     *)
(***************************************************************************)
\* metadata: Optional[dict] is None, the empty dict or a dict with entries.
\* In a JSON document the key is there with its dict, or missing.
MetaNone == "None"
MetaEmpty == "{}"
MetaSome == "{note}"
KeyMissing == "missing"
Metadata == {MetaNone, MetaEmpty, MetaSome}

AssetWith(id, value, pct, meta) ==
    [assetID |-> id, value |-> value, ownershipPercentage |-> pct, metadata |-> meta]
Asset(id, value, pct) == AssetWith(id, value, pct, MetaNone)
Liability(id, amount, pay) ==
    [liabilityID |-> id, amount |-> amount, monthlyPayment |-> pay, metadata |-> MetaNone]
FinancialDataWith(did, assets, liabilities, meta) ==
    [userDID |-> did, assets |-> assets, liabilities |-> liabilities, metadata |-> meta]
FinancialData(did, assets, liabilities) ==
    FinancialDataWith(did, assets, liabilities, MetaNone)

\* The records the callers submit.
AssetsOne == << Asset("a1", 100, 100) >>
AssetsTwo == << Asset("a1", 100, 100), Asset("a2", 50, 50) >>
LiabOne == << Liability("l1", 20, 1) >>
RecordInputs ==
    { FinancialData(d, AssetsOne, << >>) : d \in {OwnerLower, OwnerChecksum} }
    \cup { FinancialData(OwnerLower, AssetsTwo, << >>),
           FinancialData(OwnerLower, AssetsOne, LiabOne) }

NoRecord == FinancialData("", << >>, << >>)
NoAsset == Asset("", 0, 0)
NoLiability == Liability("", 0, 0)


(***************************************************************************)
(* State.                                                                  *)
(***************************************************************************)
VARIABLES
    files,                \* FinancialDataStorage: address -> stored bytes
    encrypted,            \* FinancialDataStorage.encrypted (fixed at construction)
    pointer,              \* ledger: account -> dataPointer (bytes32)
    profile,              \* ledger: account -> pushed classification
    consents,             \* ledger: <<owner, requester>> -> consent record
    now,                  \* ledger: block timestamp
    username_to_address,  \* UserDirectory
    address_to_username,  \* UserDirectory
    ops,                  \* request slot -> the call running in it
    live,                 \* the request slots in use
    okBefore,             \* history: <<owner, requester>> pairs served a record before
    synced,               \* history: addresses whose last write was a completed sync
    otp_store,            \* IdentityVerification._otp_store: address -> (otp, expires_at)
    verifications,        \* IdentityVerification._verifications: address -> proofs
    clock,                \* time.time()
    otp_log,              \* history: the codes issued and verified per address
    last_saved            \* history: address -> the record last handed to save

vars == << files, encrypted, pointer, profile, consents, now,
           username_to_address, address_to_username, ops, live, okBefore, synced,
           otp_store, verifications, clock, otp_log, last_saved >>

otpVars == << otp_store, verifications, clock, otp_log >>
ledgerVars == << pointer, profile, consents, now >>
dirVars == << username_to_address, address_to_username >>

Slots == {"s1", "s2"}

(***************************************************************************)
(* FinancialDataStorage (data_storage/storage.py, models.py).              *)
(* A file holds the canonical JSON of a record in plaintext, or that JSON  *)
(* encrypted with the configured cipher, or bytes written by someone else. *)
(* SHA-256 is modelled as injective: a digest names the bytes it hashes.   *)
(***************************************************************************)
\* `**({"metadata": self.metadata} if self.metadata else {})`: None and the
\* empty dict are falsy, the key is left out.
metadata_to_dict(meta) == IF meta = MetaSome THEN MetaSome ELSE KeyMissing

\* data.get("metadata"): None when the key is missing.
metadata_from_dict(entry) == IF entry = KeyMissing THEN MetaNone ELSE entry

Asset_to_dict(a) == [a EXCEPT !.metadata = metadata_to_dict(a.metadata)]
Asset_from_dict(d) == [d EXCEPT !.metadata = metadata_from_dict(d.metadata)]

\* Asset.__post_init__ and FinancialData.__post_init__: run when an object
\* is constructed, and by from_dict, which constructs.
Asset_post_init(a) ==
    /\ 0 <= a.ownershipPercentage /\ a.ownershipPercentage <= 100
    /\ a.value >= 0
FinancialData_post_init(rec) == rec.userDID \in WellFormed

\* The JSON document of "no record" (a placeholder, never written).
NoDocument == [NoRecord EXCEPT !.metadata = KeyMissing]

\* What save was last called with for an address (nothing, or a record).
NotSaved == [set |-> FALSE, rec |-> NoRecord]
Saved(rec) == [set |-> TRUE, rec |-> rec]

NoFile == [kind |-> "none", json |-> NoDocument]
Plain(j) == [kind |-> "plain", json |-> j]
Cipher(j) == [kind |-> "cipher", json |-> j]
Garbage == [kind |-> "garbage", json |-> NoDocument]

sha256(bytes) == [kind |-> "digest", of |-> bytes]
ZeroPointer == [kind |-> "zero", of |-> NoFile]

\* Liability.to_dict reads self.dueDate and self.isOverdue, which the
\* dataclass does not declare: AttributeError for every liability.
Liability_to_dict(l) == [ok |-> FALSE, val |-> l]

\* FinancialData.to_dict: the record's fields, each asset and liability
\* converted in turn.
to_dict(rec) ==
    IF \E i \in 1..Len(rec.liabilities) : ~Liability_to_dict(rec.liabilities[i]).ok
    THEN [ok |-> FALSE, val |-> NoDocument]
    ELSE [ok |-> TRUE,
          val |-> [userDID |-> rec.userDID,
                   assets |-> [i \in 1..Len(rec.assets) |-> Asset_to_dict(rec.assets[i])],
                   liabilities |-> << >>,
                   metadata |-> metadata_to_dict(rec.metadata)]]

\* FinancialData.from_dict: Liability.from_dict passes dueDate and isOverdue
\* to a constructor that has no such parameters (TypeError).
from_dict(j) ==
    IF \/ j.liabilities # << >>
       \/ \E i \in 1..Len(j.assets) : ~Asset_post_init(Asset_from_dict(j.assets[i]))
       \/ ~FinancialData_post_init(j)
    THEN [ok |-> FALSE, val |-> NoRecord]
    ELSE [ok |-> TRUE,
          val |-> [userDID |-> j.userDID,
                   assets |-> [i \in 1..Len(j.assets) |-> Asset_from_dict(j.assets[i])],
                   liabilities |-> << >>,
                   metadata |-> metadata_from_dict(j.metadata)]]

get_file_path(user_did) == user_did

\* Fernet: only a token made with the key decrypts.
decrypt(bytes) ==
    IF bytes.kind = "cipher"
    THEN [ok |-> TRUE, val |-> Plain(bytes.json)]
    ELSE [ok |-> FALSE, val |-> NoFile]

\* The bytes a read path works on: the file's bytes, decrypted if configured.
read_bytes(user_did) ==
    LET raw == files[get_file_path(user_did)] IN
    IF encrypted THEN decrypt(raw) ELSE [ok |-> TRUE, val |-> raw]

\* A faulty save, for comparison: the digest is taken over the bytes written
\* to the file, which are the cipher text when encryption is configured.
save_hash_of_stored(rec) ==
    LET d == to_dict(rec)
        stored == IF encrypted THEN Cipher(d.val) ELSE Plain(d.val)
    IN IF ~d.ok
       THEN [ok |-> FALSE, files |-> files, hash |-> ZeroPointer]
       ELSE [ok |-> TRUE,
             files |-> [files EXCEPT ![get_file_path(rec.userDID)] = stored],
             hash |-> sha256(stored)]

\* save: [ok, files, hash]; the digest is taken over the plaintext JSON.
save(rec) ==
    LET d == to_dict(rec) IN
    IF ~d.ok
    THEN [ok |-> FALSE, files |-> files, hash |-> ZeroPointer]
    ELSE [ok |-> TRUE,
          files |-> [files EXCEPT ![get_file_path(rec.userDID)] =
                        IF encrypted THEN Cipher(d.val) ELSE Plain(d.val)],
          hash |-> sha256(Plain(d.val))]

\* load: tag "none" (no file), "data" (a record) or "raise" (decrypt, JSON
\* or entity decoding failed).
load(user_did) ==
    IF files[get_file_path(user_did)].kind = "none"
    THEN [tag |-> "none", data |-> NoRecord]
    ELSE LET b == read_bytes(user_did) IN
         IF ~b.ok \/ b.val.kind # "plain" \/ ~from_dict(b.val.json).ok
         THEN [tag |-> "raise", data |-> NoRecord]
         ELSE [tag |-> "data", data |-> from_dict(b.val.json).val]

\* calculate_file_hash: tag "none", "hash" or "raise" (decrypt failed).
calculate_file_hash(user_did) ==
    IF files[get_file_path(user_did)].kind = "none"
    THEN [tag |-> "none", hash |-> ZeroPointer]
    ELSE LET b == read_bytes(user_did) IN
         IF ~b.ok
         THEN [tag |-> "raise", hash |-> ZeroPointer]
         ELSE [tag |-> "hash", hash |-> sha256(b.val)]

\* _ensure_bytes32: a SHA-256 digest and an on-chain bytes32 both have 32 bytes.
ensure_bytes32(value) ==
    [ok |-> value.kind \in {"digest", "zero"}, val |-> value]

(***************************************************************************)
(* The ledger (IdentityRegistry and ConsentManager contracts).  The        *)
(* contracts are not part of src/off-chain; their effect is taken from the *)
(* interface description: a write is applied as a whole or not at all.     *)
(***************************************************************************)
ConsentPairs == {OwnerAcct, RequesterAcct} \X {OwnerAcct, RequesterAcct}
NoConsent == [status |-> "None", startDate |-> 0, endDate |-> 0]
NoProfile == [set |-> FALSE, creditTier |-> 0, incomeBand |-> 0]

\* isConsentGranted: status Granted and the block time inside the window.
Ledger_isConsentGranted(owner, requester) ==
    /\ << owner, requester >> \in ConsentPairs
    /\ consents[<< owner, requester >>].status = "Granted"
    /\ consents[<< owner, requester >>].startDate <= now
    /\ now <= consents[<< owner, requester >>].endDate

\* updateDataPointer(pointer), sent by `sender`.
Ledger_updateDataPointer(sender, ptr) ==
    [pointer EXCEPT ![sender] = ptr]

\* updateProfile(creditTier, incomeBand, owner): only the validator may send it.
Ledger_updateProfile_allowed(sender) == sender = ValidatorAcct
Ledger_updateProfile(tier, band, owner) ==
    [profile EXCEPT ![owner] = [set |-> TRUE, creditTier |-> tier, incomeBand |-> band]]

\* createConsent(requester, owner, start, end): a new consent, not yet granted.
Ledger_createConsent(requester, owner, start, end) ==
    [consents EXCEPT ![<< owner, requester >>] =
        [status |-> "Requested", startDate |-> start, endDate |-> end]]

\* changeStatus(owner, consentID(requester, owner), status).
Ledger_changeStatus(owner, requester, status) ==
    [consents EXCEPT ![<< owner, requester >>].status = status]

(***************************************************************************)
(* FinancialDataService (data_services/financial_data_service.py).         *)
(* Money is in thousands; a ratio is kept as a numerator over the common   *)
(* denominator Scale, so that every comparison is exact.                   *)
(***************************************************************************)
None == [some |-> FALSE, v |-> 0]
Some(x) == [some |-> TRUE, v |-> x]

RECURSIVE sum_assets_x100(_)
sum_assets_x100(assets) ==
    IF assets = << >> THEN 0
    ELSE Head(assets).value * Head(assets).ownershipPercentage
         + sum_assets_x100(Tail(assets))

RECURSIVE sum_amount(_)
sum_amount(liabilities) ==
    IF liabilities = << >> THEN 0
    ELSE Head(liabilities).amount + sum_amount(Tail(liabilities))

RECURSIVE sum_monthly(_)
sum_monthly(liabilities) ==
    IF liabilities = << >> THEN 0
    ELSE Head(liabilities).monthlyPayment + sum_monthly(Tail(liabilities))

\* A faulty clamp, for comparison: no upper limit.
Clamp_no_upper(x, lo, hi) == IF x < lo THEN lo ELSE x

\* Python's min(max(x, lo), hi).
Clamp(x, lo, hi) == IF x < lo THEN lo ELSE IF x > hi THEN hi ELSE x

tier_thresholds ==
    << << 800, "HighPlatinum" >>, << 740, "MidPlatinum" >>, << 700, "LowPlatinum" >>,
       << 660, "HighGold" >>, << 620, "MidGold" >>, << 580, "LowGold" >>,
       << 540, "HighSilver" >>, << 500, "MidSilver" >>, << 460, "LowSilver" >>,
       << 420, "HighBronze" >>, << 380, "MidBronze" >>, << 340, "LowBronze" >>,
       << 0, "None" >> >>

income_bands ==
    << << 25, "upto25k" >>, << 50, "upto50k" >>, << 75, "upto75k" >>,
       << 100, "upto100k" >>, << 150, "upto150k" >>, << 200, "upto200k" >>,
       << 250, "upto250k" >>, << 300, "upto300k" >>, << 350, "upto350k" >>,
       << 400, "upto400k" >>, << 450, "upto450k" >>, << 500, "upto500k" >> >>

\* A faulty _map_tier, for comparison: a threshold is reached only above it.
map_tier_strict(scoreNum, scale) ==
    LET hits == { i \in 1..Len(tier_thresholds) :
                    scoreNum > tier_thresholds[i][1] * scale } IN
    IF hits = {} THEN "None"
    ELSE tier_thresholds[CHOOSE i \in hits : \A j \in hits : i <= j][2]

\* _map_tier on a score given as scoreNum / scale.
map_tier(scoreNum, scale) ==
    LET hits == { i \in 1..Len(tier_thresholds) :
                    scoreNum >= tier_thresholds[i][1] * scale } IN
    IF hits = {} THEN "None"
    ELSE tier_thresholds[CHOOSE i \in hits : \A j \in hits : i <= j][2]

\* A faulty _map_income_band, for comparison: a band ends below its threshold.
map_income_band_strict(annual_income) ==
    IF ~annual_income.some THEN "None"
    ELSE LET hits == { i \in 1..Len(income_bands) :
                        annual_income.v < income_bands[i][1] } IN
         IF hits = {} THEN "moreThan500k"
         ELSE income_bands[CHOOSE i \in hits : \A j \in hits : i <= j][2]

\* _map_income_band.
map_income_band(annual_income) ==
    IF ~annual_income.some THEN "None"
    ELSE LET hits == { i \in 1..Len(income_bands) :
                        annual_income.v <= income_bands[i][1] } IN
         IF hits = {} THEN "moreThan500k"
         ELSE income_bands[CHOOSE i \in hits : \A j \in hits : i <= j][2]

\* dti and utilization as fractions num / den (absent: None).
NoRatio == [some |-> FALSE, num |-> 0, den |-> 1]
Ratio(num, den) == [some |-> TRUE, num |-> num, den |-> den]

\* A faulty dti, for comparison: computed whenever an income is given.
dti_any_income(liabilities, annual_income) ==
    IF annual_income.some
    THEN Ratio(12 * sum_monthly(liabilities), 10 * annual_income.v)
    ELSE NoRatio

\* monthly_liabilities / (annual_income / 12), `if annual_income and annual_income > 0`.
dti(liabilities, annual_income) ==
    IF annual_income.some /\ annual_income.v > 0
    THEN Ratio(12 * sum_monthly(liabilities), 10 * annual_income.v)
    ELSE NoRatio

\* revolving / total_credit_limit, `if total_credit_limit and total_credit_limit > 0`.
utilization(liabilities, total_credit_limit) ==
    IF total_credit_limit.some /\ total_credit_limit.v > 0
    THEN Ratio(sum_amount(liabilities), total_credit_limit.v)
    ELSE NoRatio

\* A faulty _risk_score, for comparison: the result is not clamped.
risk_score_unclamped(nw100, inc, lim, hasDti, dtiNum, hasUtil, utilNum) ==
    LET scale == 1000 * inc * lim
        worth == Clamp(nw100 * inc * lim, (-200) * scale, 300 * scale)
        dtiTerm == IF hasDti THEN Clamp(dtiNum, 0, 250 * scale) ELSE 0
        utilTerm == IF hasUtil THEN Clamp(utilNum, 0, 250 * scale) ELSE 0
    IN 500 * scale + worth - dtiTerm - utilTerm

\* A faulty _risk_score, for comparison: the net-worth term may reach 400.
risk_score_wide_worth(nw100, inc, lim, hasDti, dtiNum, hasUtil, utilNum) ==
    LET scale == 1000 * inc * lim
        worth == Clamp(nw100 * inc * lim, (-200) * scale, 400 * scale)
        dtiTerm == IF hasDti THEN Clamp(dtiNum, 0, 250 * scale) ELSE 0
        utilTerm == IF hasUtil THEN Clamp(utilNum, 0, 250 * scale) ELSE 0
    IN Clamp(500 * scale + worth - dtiTerm - utilTerm, 0, 1000 * scale)

\* _risk_score, times scale.  nw100 is the net worth times 100; dtiNum and
\* utilNum are dti * 200 and utilization * 400, times scale.
risk_score(nw100, inc, lim, hasDti, dtiNum, hasUtil, utilNum) ==
    LET scale == 1000 * inc * lim
        worth == Clamp(nw100 * inc * lim, (-200) * scale, 300 * scale)
        dtiTerm == IF hasDti THEN Clamp(dtiNum, 0, 250 * scale) ELSE 0
        utilTerm == IF hasUtil THEN Clamp(utilNum, 0, 250 * scale) ELSE 0
    IN Clamp(500 * scale + worth - dtiTerm - utilTerm, 0, 1000 * scale)

\* compute_summary.
compute_summary(rec, annual_income, total_credit_limit) ==
    LET total_assets100 == sum_assets_x100(rec.assets)
        total_liabilities == sum_amount(rec.liabilities)
        nw100 == total_assets100 - 100 * total_liabilities
        hasDti == dti(rec.liabilities, annual_income).some
        hasUtil == utilization(rec.liabilities, total_credit_limit).some
        inc == IF hasDti THEN annual_income.v ELSE 1
        lim == IF hasUtil THEN total_credit_limit.v ELSE 1
        scale == 1000 * inc * lim
        dtiNum == 240 * sum_monthly(rec.liabilities) * 1000 * lim
        utilNum == 400 * total_liabilities * 1000 * inc
        score == risk_score(nw100, inc, lim, hasDti, dtiNum, hasUtil, utilNum)
    IN [net_worth100 |-> nw100,
        total_assets100 |-> total_assets100,
        total_liabilities |-> total_liabilities,
        hasDti |-> hasDti,
        hasUtil |-> hasUtil,
        dti |-> dti(rec.liabilities, annual_income),
        utilization |-> utilization(rec.liabilities, total_credit_limit),
        scale |-> scale,
        risk_score |-> score,
        credit_tier |-> map_tier(score, scale),
        income_band |-> map_income_band(annual_income)]

NoSummary == compute_summary(NoRecord, None, None)

CREDIT_TIERS ==
    << "None", "LowBronze", "MidBronze", "HighBronze", "LowSilver", "MidSilver",
       "HighSilver", "LowGold", "MidGold", "HighGold", "LowPlatinum",
       "MidPlatinum", "HighPlatinum" >>

INCOME_BANDS ==
    << "None", "upto25k", "upto50k", "upto75k", "upto100k", "upto150k",
       "upto200k", "upto250k", "upto300k", "upto350k", "upto400k", "upto450k",
       "upto500k", "moreThan500k" >>

\* A faulty lookup, for comparison: positions counted from one.
IndexOf_from_one(seq, x) ==
    IF \E i \in 1..Len(seq) : seq[i] = x
    THEN CHOOSE i \in 1..Len(seq) : seq[i] = x /\ \A j \in 1..(i - 1) : seq[j] # x
    ELSE -1

\* list.index: the zero-based position, or -1 for ValueError.
IndexOf(seq, x) ==
    IF \E i \in 1..Len(seq) : seq[i] = x
    THEN (CHOOSE i \in 1..Len(seq) : seq[i] = x /\ \A j \in 1..(i - 1) : seq[j] # x) - 1
    ELSE -1

(***************************************************************************)
(* UserDirectory (data_storage/user_directory.py).                         *)
(***************************************************************************)
Usernames == {"alice", "Alice"}
Lower(str) ==
    CASE str = "Alice" -> "alice"
      [] str = OwnerChecksum -> OwnerLower
      [] OTHER -> str
\* The names the directory is called with on its own.
DirectoryUsernames == Usernames \cup {"bob"}
LowerUsernames == { Lower(u) : u \in DirectoryUsernames }
LowerAddresses == { Lower(a) : a \in WellFormed }
\* A dictionary is a function to "" (no entry) or the entry.
Absent == ""

\* A faulty lookup, for comparison: the name is looked up as spelled.
get_address_as_spelled(username) ==
    IF username \in DOMAIN username_to_address THEN username_to_address[username] ELSE Absent

get_address(username) == username_to_address[Lower(username)]

(***************************************************************************)
(* IdentityVerification (data_services/identity_verification.py).  Time    *)
(* is counted in units of 300 seconds.                                     *)
(***************************************************************************)
\* otp_ttl_seconds = 600
otp_ttl == 2

\* random.choices(string.digits, k=6): any code can be drawn, also the one
\* drawn before.
Codes == {"111111", "222222"}
IdNumbers == {"id-1", "id-2"}

\* hashlib.sha256(text.encode()).hexdigest(), injective as sha256 above.
hexdigest(text) == [kind |-> "hexdigest", of |-> text]
NoHash == [kind |-> "absent", of |-> ""]

\* _otp_store.get(addr): None, or the tuple (otp, expires_at).
NoOtp == [set |-> FALSE, otp |-> "", expires_at |-> 0]
OtpEntry(otp, expires_at) == [set |-> TRUE, otp |-> otp, expires_at |-> expires_at]

\* _verifications.get(addr, {}): the keys email_hash and national_id_hash.
NoProofs == [email_hash |-> NoHash, national_id_hash |-> NoHash]

\* _normalize: lower case; ValueError unless 0x and 42 characters.
normalize(address) ==
    IF Lower(address) \in LowerAddresses
    THEN [ok |-> TRUE, val |-> Lower(address)]
    ELSE [ok |-> FALSE, val |-> ""]

NoOtpLog == [consumed |-> "", last |-> "", earlier |-> {}, failed |-> FALSE]

(***************************************************************************)
(* Request slots.  A slot holds the arguments, the program counter, the    *)
(* local variables and the outcome of one call of DataSharingClient.  The  *)
(* fields trace, pre, granted, remoteFailed, lapsed, overlap, usedBefore   *)
(* and superseded record what happened, for the properties; the code does  *)
(* not read them.                                                          *)
(***************************************************************************)
Snapshot ==
    [files |-> files, pointer |-> pointer, profile |-> profile, consents |-> consents,
     username_to_address |-> username_to_address,
     address_to_username |-> address_to_username,
     otp_store |-> otp_store, verifications |-> verifications]

NoSnapshot ==
    [files |-> [a \in Addresses |-> NoFile],
     pointer |-> [a \in Accounts |-> ZeroPointer],
     profile |-> [a \in Accounts |-> NoProfile],
     consents |-> [c \in ConsentPairs |-> NoConsent],
     username_to_address |-> [u \in LowerUsernames |-> Absent],
     address_to_username |-> [a \in LowerAddresses |-> Absent],
     otp_store |-> [a \in LowerAddresses |-> NoOtp],
     verifications |-> [a \in LowerAddresses |-> NoProofs]]

NoResult ==
    [tag |-> "none", exc |-> "", bool |-> FALSE, found |-> FALSE, data |-> NoRecord,
     dataPointer |-> ZeroPointer, summary |-> NoSummary,
     pointerReceipt |-> FALSE, profileReceipt |-> FALSE, profileError |-> FALSE,
     text |-> ""]

Idle ==
    [kind |-> "idle", pc |-> "idle", rec |-> NoRecord, key |-> NoKey, vkey |-> NoKey,
     income |-> None, limit |-> None, ident |-> "", requester |-> "", addr |-> "",
     startDate |-> 0, endDate |-> 0, status |-> "", hash |-> ZeroPointer,
     summary |-> NoSummary, result |-> NoResult, trace |-> << >>,
     pre |-> NoSnapshot, granted |-> FALSE, remoteFailed |-> FALSE, lapsed |-> FALSE,
     asset |-> NoAsset, liability |-> NoLiability, entryID |-> "", overlap |-> FALSE, new_username |-> "",
     impersonate |-> FALSE, responded |-> FALSE,
     otp |-> "", record |-> NoOtp, usedBefore |-> FALSE, superseded |-> FALSE]

Raise(o, exc) ==
    [o EXCEPT !.pc = "done", !.result = [NoResult EXCEPT !.tag = "raise", !.exc = exc]]

Return(o, res) ==
    [o EXCEPT !.pc = "done", !.result = [res EXCEPT !.tag = "return"]]

Log(o, event) == [o EXCEPT !.trace = Append(o.trace, event)]

AllIdle == \A p \in live : ops[p].kind = "idle"

(***************************************************************************)
(* ConsentDataService and the consent calls of DataSharingClient.          *)
(***************************************************************************)
\* A faulty check, for comparison: a pair that was served before is taken
\* as granted without asking the ledger again.
check_consent_cached(user_address, requester_address, fail) ==
    \/ /\ << AcctOf(user_address), AcctOf(requester_address) >> \in ConsentPairs
       /\ okBefore[<< AcctOf(user_address), AcctOf(requester_address) >>]
    \/ /\ to_checksum_address(user_address).ok
       /\ to_checksum_address(requester_address).ok
       /\ ~fail
       /\ Ledger_isConsentGranted(AcctOf(user_address), AcctOf(requester_address))

\* _check_consent: every failure inside the try block yields False.
check_consent(user_address, requester_address, fail) ==
    /\ to_checksum_address(user_address).ok
    /\ to_checksum_address(requester_address).ok
    /\ ~fail
    /\ Ledger_isConsentGranted(AcctOf(user_address), AcctOf(requester_address))

\* A faulty gate, for comparison: the record is loaded whatever the check says.
rd_after_check_open(is_granted) == "rd_load"

\* request_data_by_address / request_data_by_username: what follows the check.
rd_after_check(is_granted) == IF is_granted THEN "rd_load" ELSE "raise"

\* request_financial_file_with_consent: dispatch on the 0x prefix.
Call_request_financial_file(p, ident, requester) ==
    /\ ops[p].kind = "idle"
    /\ ops' = [ops EXCEPT ![p] =
                 [Idle EXCEPT !.kind = "fetch",
                              !.pc = IF ident \in Addresses THEN "rd_check" ELSE "rdu_lookup",
                              !.ident = ident,
                              !.addr = IF ident \in Addresses THEN ident ELSE "",
                              !.requester = requester,
                              !.pre = Snapshot]]
    /\ UNCHANGED << otpVars, files, last_saved, encrypted, ledgerVars, dirVars, live, okBefore, synced >>

\* request_data_by_username: the directory lookup.
rdu_lookup(p) ==
    /\ ops[p].pc = "rdu_lookup"
    /\ LET user_address == get_address(ops[p].ident) IN
       ops' = [ops EXCEPT ![p] =
                 IF user_address = Absent
                 THEN Raise(Log(@, "lookup"), "ValueError")
                 ELSE [Log(@, "lookup") EXCEPT !.pc = "rd_check", !.addr = user_address]]
    /\ UNCHANGED << otpVars, files, last_saved, encrypted, ledgerVars, dirVars, live, okBefore, synced >>

\* The consent check of either request path.
rd_check(p) ==
    /\ ops[p].pc = "rd_check"
    /\ \E fail \in BOOLEAN :
        LET o == ops[p]
            pair == << AcctOf(o.addr), AcctOf(o.requester) >>
            is_granted == check_consent(o.addr, o.requester, fail)
            seen == [Log(o, "check") EXCEPT
                       !.granted = Ledger_isConsentGranted(AcctOf(o.addr), AcctOf(o.requester)),
                       !.remoteFailed = fail,
                       !.lapsed = /\ pair \in ConsentPairs
                                  /\ \/ consents[pair].status \in {"Revoked", "Expired"}
                                     \/ /\ consents[pair].status = "Granted"
                                        /\ now > consents[pair].endDate]
        IN ops' = [ops EXCEPT ![p] =
                     IF rd_after_check(is_granted) = "raise"
                     THEN Raise(seen, "PermissionError")
                     ELSE [seen EXCEPT !.pc = rd_after_check(is_granted)]]
    /\ UNCHANGED << otpVars, files, last_saved, encrypted, ledgerVars, dirVars, live, okBefore, synced >>

\* storage.load(user_address), returned to the caller.
rd_load(p) ==
    /\ ops[p].pc = "rd_load"
    /\ LET o == Log(ops[p], "load")
           r == load(o.addr)
       IN ops' = [ops EXCEPT ![p] =
                    CASE r.tag = "raise" -> Raise(o, "DecodeError")
                      [] r.tag = "none" -> Return(o, NoResult)
                      [] OTHER -> Return(o, [NoResult EXCEPT !.found = TRUE, !.data = r.data])]
    /\ UNCHANGED << otpVars, files, last_saved, encrypted, ledgerVars, dirVars, live, okBefore, synced >>

\* DataSharingClient.is_consent_granted: no try block around the call.
is_consent_granted(p, user_address, requester_address) ==
    /\ ops[p].kind = "idle"
    /\ \E fail \in BOOLEAN :
        LET o == [Idle EXCEPT !.kind = "is_consent_granted", !.addr = user_address,
                              !.requester = requester_address, !.pre = Snapshot,
                              !.remoteFailed = fail,
                              !.granted = Ledger_isConsentGranted(AcctOf(user_address),
                                                                  AcctOf(requester_address))]
        IN ops' = [ops EXCEPT ![p] =
                     IF ~to_checksum_address(user_address).ok
                        \/ ~to_checksum_address(requester_address).ok
                     THEN Raise(o, "ValueError")
                     ELSE IF fail
                     THEN Raise(o, "ExternalFailure")
                     ELSE Return(o, [NoResult EXCEPT !.bool = o.granted])]
    /\ UNCHANGED << otpVars, files, last_saved, encrypted, ledgerVars, dirVars, live, okBefore, synced >>

\* get_consent_status: the isGranted entry of the report, consent[2] == 1.
status_is_granted(consent) == consent.status = "Granted"

\* get_consent_status: the report on the consent record of a username and a
\* requester.  text is the status entry, or "error" for the report of a failure.
get_consent_status(p, username, requester_address) ==
    /\ ops[p].kind = "idle"
    /\ \E fail \in BOOLEAN :
        LET user_address == get_address(username)
            pair == << AcctOf(user_address), AcctOf(requester_address) >>
            o == [Idle EXCEPT !.kind = "get_consent_status", !.ident = username,
                              !.requester = requester_address, !.pre = Snapshot,
                              !.remoteFailed = fail,
                              !.addr = user_address,
                              !.granted = Ledger_isConsentGranted(pair[1], pair[2])]
        IN ops' = [ops EXCEPT ![p] =
                     IF user_address = Absent
                     THEN Return(o, [NoResult EXCEPT !.text = "error"])
                     ELSE IF \/ ~to_checksum_address(requester_address).ok
                             \/ ~to_checksum_address(user_address).ok
                             \/ fail
                     THEN Return(o, [NoResult EXCEPT !.found = TRUE, !.text = "error"])
                     ELSE LET consent == IF pair \in ConsentPairs THEN consents[pair] ELSE NoConsent IN
                          Return(o, [NoResult EXCEPT !.found = TRUE,
                                                     !.text = consent.status,
                                                     !.bool = status_is_granted(consent)])]
    /\ UNCHANGED << otpVars, files, last_saved, encrypted, ledgerVars, dirVars, live, okBefore, synced >>

(***************************************************************************)
(* DataSharingClient.save_financial_profile, one action per external call. *)
(***************************************************************************)
\* Faulty continuations, for comparison: the push is attempted without a
\* validator key; the call goes on after a failed pointer update.
sfp_after_summary_always(validator_private_key) == "sfp_push"
sfp_after_anchor_continue(sent) == "sfp_summary"

\* `if validator_private_key:` -- None and the empty string are falsy.
sfp_after_summary(validator_private_key) ==
    IF validator_private_key # NoKey /\ validator_private_key # EmptyKey
    THEN "sfp_push" ELSE "return"

\* update_data_pointer raises when the transaction fails, which ends the call.
sfp_after_anchor(sent) == IF sent THEN "sfp_summary" ELSE "raise"

\* update_on_chain_profile raises when the transaction fails; nothing in
\* save_financial_profile catches it.
sfp_after_push(sent) == IF sent THEN "return" ELSE "raise"

sfp_result(o) ==
    [NoResult EXCEPT !.dataPointer = o.hash, !.summary = o.summary,
                     !.pointerReceipt = TRUE,
                     !.profileReceipt = ("push" \in { o.trace[i] : i \in 1..Len(o.trace) })]

Call_save_financial_profile(p, financial_data, user_private_key, validator_private_key, annual_income, total_credit_limit) ==
    /\ ops[p].kind = "idle"
    /\ ops' = [ops EXCEPT ![p] =
                 [Idle EXCEPT !.kind = "save_financial_profile", !.pc = "sfp_save",
                              !.rec = financial_data, !.key = user_private_key,
                              !.vkey = validator_private_key, !.income = annual_income,
                              !.limit = total_credit_limit, !.pre = Snapshot]]
    /\ UNCHANGED << otpVars, files, last_saved, encrypted, ledgerVars, dirVars, live, okBefore, synced >>

\* data_hash = self.storage.save(financial_data)
sfp_save(p) ==
    /\ ops[p].pc = "sfp_save"
    /\ LET o == ops[p]
           r == save(o.rec)
       IN /\ files' = r.files
          /\ last_saved' = IF r.ok THEN [last_saved EXCEPT ![o.rec.userDID] = Saved(o.rec)]
                           ELSE last_saved
          /\ ops' = [ops EXCEPT ![p] =
                       IF r.ok /\ ensure_bytes32(r.hash).ok
                       THEN [Log(o, "save") EXCEPT !.pc = "sfp_anchor", !.hash = r.hash]
                       ELSE Raise(Log(o, "save_failed"), "AttributeError")]
          /\ synced' = IF r.ok
                       THEN [synced EXCEPT ![o.rec.userDID] = FALSE] ELSE synced
    /\ UNCHANGED << otpVars, encrypted, ledgerVars, dirVars, live, okBefore >>

\* pointer_receipt = self.update_data_pointer(user_private_key, data_pointer)
sfp_anchor(p) ==
    /\ ops[p].pc = "sfp_anchor"
    /\ \E fail \in BOOLEAN :
        LET o == ops[p]
            sent == ~fail
        IN /\ pointer' = IF sent THEN Ledger_updateDataPointer(o.key, o.hash) ELSE pointer
           /\ ops' = [ops EXCEPT ![p] =
                        IF sfp_after_anchor(sent) = "raise"
                        THEN Raise(Log(o, "anchor_failed"), "ExternalFailure")
                        ELSE [Log(o, IF sent THEN "anchor" ELSE "anchor_failed")
                                 EXCEPT !.pc = sfp_after_anchor(sent)]]
           /\ synced' = [a \in WellFormed |->
                           IF sent /\ AcctOf(a) = o.key THEN FALSE ELSE synced[a]]
    /\ UNCHANGED << otpVars, files, last_saved, encrypted, profile, consents, now, dirVars, live, okBefore >>

\* summary = self.credit_calculator.summarize(...), then the validator branch.
sfp_summary(p) ==
    /\ ops[p].pc = "sfp_summary"
    /\ LET o == [Log(ops[p], "summary") EXCEPT
                   !.summary = compute_summary(ops[p].rec, ops[p].income, ops[p].limit)]
       IN /\ ops' = [ops EXCEPT ![p] =
                       IF sfp_after_summary(o.vkey) = "return"
                       THEN Return(o, sfp_result(o))
                       ELSE [o EXCEPT !.pc = sfp_after_summary(o.vkey)]]
          /\ synced' = IF sfp_after_summary(o.vkey) = "return"
                          /\ o.key = AcctOf(o.rec.userDID)
                       THEN [synced EXCEPT ![o.rec.userDID] = TRUE] ELSE synced
    /\ UNCHANGED << otpVars, files, last_saved, encrypted, ledgerVars, dirVars, live, okBefore >>

\* profile_receipt = self.validator_service.update_on_chain_profile(...)
sfp_push(p) ==
    /\ ops[p].pc = "sfp_push"
    /\ \E fail \in BOOLEAN :
        LET o == ops[p]
            credit_enum == IndexOf(CREDIT_TIERS, o.summary.credit_tier)
            income_enum == IndexOf(INCOME_BANDS, o.summary.income_band)
            sent == /\ credit_enum >= 0
                    /\ income_enum >= 0
                    /\ o.vkey \in Keys
                    /\ Ledger_updateProfile_allowed(o.vkey)
                    /\ ~fail
            after == Log(o, IF sent THEN "push" ELSE "push_failed")
        IN /\ profile' = IF sent
                         THEN Ledger_updateProfile(credit_enum, income_enum, AcctOf(o.rec.userDID))
                         ELSE profile
           /\ ops' = [ops EXCEPT ![p] =
                        IF sfp_after_push(sent) = "raise"
                        THEN Raise(after, "ExternalFailure")
                        ELSE Return(after, sfp_result(after))]
           /\ synced' = IF sfp_after_push(sent) = "return"
                           /\ o.key = AcctOf(o.rec.userDID)
                        THEN [synced EXCEPT ![o.rec.userDID] = TRUE] ELSE synced
    /\ UNCHANGED << otpVars, files, last_saved, encrypted, pointer, consents, now, dirVars, live, okBefore >>

(***************************************************************************)
(* DataSharingClient.verify_data_integrity.                                *)
(***************************************************************************)
verify_data_integrity(p, user_address) ==
    /\ ops[p].kind = "idle"
    /\ \E fail \in BOOLEAN :
        LET o == [Idle EXCEPT !.kind = "verify_data_integrity", !.addr = user_address,
                              !.pre = Snapshot, !.remoteFailed = fail]
            actual_hash == calculate_file_hash(user_address)
            expected_pointer == pointer[AcctOf(user_address)]
        IN ops' = [ops EXCEPT ![p] =
                     IF ~to_checksum_address(user_address).ok
                     THEN Raise(o, "ValueError")
                     ELSE IF fail
                     THEN Raise(o, "ExternalFailure")
                     ELSE IF actual_hash.tag = "raise"
                     THEN Raise(o, "InvalidToken")
                     ELSE IF actual_hash.tag = "none"
                     THEN Return(o, NoResult)
                     ELSE IF ~ensure_bytes32(actual_hash.hash).ok
                             \/ ~ensure_bytes32(expected_pointer).ok
                     THEN Raise(o, "ValueError")
                     ELSE Return(o, [NoResult EXCEPT !.bool =
                                       (ensure_bytes32(actual_hash.hash).val
                                          = ensure_bytes32(expected_pointer).val)])]
    /\ UNCHANGED << otpVars, files, last_saved, encrypted, ledgerVars, dirVars, live, okBefore, synced >>

(***************************************************************************)
(* Consent writes of DataSharingClient.                                    *)
(***************************************************************************)
CONSENT_STATUS == {"None", "Granted", "Requested", "Revoked", "Expired"}

\* create_and_grant_consent; the /consent/grant endpoint makes the same two
\* calls in the same order.
Call_create_and_grant_consent(p, user_private_key, requester_address, start_date, end_date) ==
    /\ ops[p].kind = "idle"
    /\ ops' = [ops EXCEPT ![p] =
                 [Idle EXCEPT !.kind = "create_and_grant_consent", !.pc = "cag_create",
                              !.key = user_private_key, !.requester = requester_address,
                              !.startDate = start_date, !.endDate = end_date,
                              !.pre = Snapshot]]
    /\ UNCHANGED << otpVars, files, last_saved, encrypted, ledgerVars, dirVars, live, okBefore, synced >>

\* created = self.create_consent(...)
cag_create(p) ==
    /\ ops[p].pc = "cag_create"
    /\ \E fail \in BOOLEAN :
        LET o == ops[p]
            wellFormed == to_checksum_address(o.requester).ok
            sent == wellFormed /\ ~fail
        IN /\ consents' = IF sent
                          THEN Ledger_createConsent(AcctOf(o.requester), o.key,
                                                    o.startDate, o.endDate)
                          ELSE consents
           /\ ops' = [ops EXCEPT ![p] =
                        IF sent
                        THEN [Log(o, "create") EXCEPT !.pc = "cag_grant"]
                        ELSE Raise(Log(o, "create_failed"),
                                   IF wellFormed THEN "ExternalFailure" ELSE "ValueError")]
    /\ UNCHANGED << otpVars, files, last_saved, encrypted, pointer, profile, now, dirVars, live, okBefore, synced >>

\* change_consent_status: [ok, exc, consents].
change_consent_status(user_private_key, requester_address, new_status, fail) ==
    IF ~to_checksum_address(requester_address).ok
    THEN [ok |-> FALSE, exc |-> "ValueError", consents |-> consents]
    ELSE IF new_status \notin CONSENT_STATUS
    THEN [ok |-> FALSE, exc |-> "ValueError", consents |-> consents]
    ELSE IF fail
    THEN [ok |-> FALSE, exc |-> "ExternalFailure", consents |-> consents]
    ELSE [ok |-> TRUE, exc |-> "",
          consents |-> Ledger_changeStatus(user_private_key, AcctOf(requester_address),
                                           new_status)]

\* granted = self.change_consent_status(..., "Granted")
cag_grant(p) ==
    /\ ops[p].pc = "cag_grant"
    /\ \E fail \in BOOLEAN :
        LET o == ops[p]
            r == change_consent_status(o.key, o.requester, "Granted", fail)
        IN /\ consents' = r.consents
           /\ ops' = [ops EXCEPT ![p] =
                        IF r.ok
                        THEN Return(Log(o, "grant"), NoResult)
                        ELSE Raise(Log(o, "grant_failed"), r.exc)]
    /\ UNCHANGED << otpVars, files, last_saved, encrypted, pointer, profile, now, dirVars, live, okBefore, synced >>

\* grant_consent / revoke_consent: change_consent_status with a fixed status.
Call_change_consent_status(p, user_private_key, requester_address, new_status) ==
    /\ ops[p].kind = "idle"
    /\ \E fail \in BOOLEAN :
        LET o == [Idle EXCEPT !.kind = "change_consent_status", !.key = user_private_key,
                              !.requester = requester_address, !.status = new_status,
                              !.pre = Snapshot]
            r == change_consent_status(user_private_key, requester_address, new_status, fail)
        IN /\ consents' = r.consents
           /\ ops' = [ops EXCEPT ![p] =
                        IF r.ok THEN Return(Log(o, "status"), NoResult)
                        ELSE Raise(Log(o, "status_failed"), r.exc)]
    /\ UNCHANGED << otpVars, files, last_saved, encrypted, pointer, profile, now, dirVars, live, okBefore, synced >>

(***************************************************************************)
(* The load-mutate-save calls of FinancialDataStorage.  Each is split      *)
(* where another thread of the process can run: between its load and its   *)
(* save.  Nothing in the class takes a lock.                               *)
(***************************************************************************)
\* next((i for i, a in enumerate(assets) if a.assetID == asset.assetID), None)
existing_index(entries, id, key) ==
    LET hits == { i \in 1..Len(entries) : entries[i][key] = id } IN
    IF hits = {} THEN 0 ELSE CHOOSE i \in hits : \A j \in hits : i <= j

\* Replace the entry with this ID where it stands, or append.
upsert(entries, entry, key) ==
    LET i == existing_index(entries, entry[key], key) IN
    IF i # 0 THEN [entries EXCEPT ![i] = entry] ELSE Append(entries, entry)

\* A faulty filter, for comparison: the first entry goes, whatever its ID.
without_first(entries, id, key) == IF entries = << >> THEN << >> ELSE Tail(entries)

\* [a for a in assets if a.assetID != asset_id]
without(entries, id, key) ==
    LET F[i \in 0..Len(entries)] ==
          IF i = 0 THEN << >>
          ELSE IF entries[i][key] = id THEN F[i - 1] ELSE Append(F[i - 1], entries[i])
    IN F[Len(entries)]

\* Another call for the same file stands between its load and its save.
MidCall(p, user_did) ==
    \E q \in live \ {p} :
        /\ ops[q].addr = user_did
        /\ ops[q].pc \in {"add_asset_save", "remove_asset_save",
                          "add_liability_save", "remove_liability_save"}

\* The first statements of add_asset and add_liability: load, or a new record.
load_or_new(p, o, user_did, next) ==
    LET r == load(user_did) IN
    CASE r.tag = "raise" -> Raise(o, "DecodeError")
      [] r.tag = "none" /\ user_did \notin WellFormed -> Raise(o, "ValueError")
      [] r.tag = "none" -> [o EXCEPT !.pc = next, !.rec = FinancialData(user_did, << >>, << >>)]
      [] OTHER -> [o EXCEPT !.pc = next, !.rec = r.data]

\* The first statements of remove_asset and remove_liability: load, or None.
load_or_none(p, o, user_did, next) ==
    LET r == load(user_did) IN
    CASE r.tag = "raise" -> Raise(o, "DecodeError")
      [] r.tag = "none" -> Return(o, NoResult)
      [] OTHER -> [o EXCEPT !.pc = next, !.rec = r.data]

\* return self.save(financial_data)
save_and_return(p, financial_data) ==
    LET r == save(financial_data)
        o == [ops[p] EXCEPT !.rec = financial_data]
    IN /\ files' = r.files
       /\ last_saved' = IF r.ok
                        THEN [last_saved EXCEPT ![financial_data.userDID] = Saved(financial_data)]
                        ELSE last_saved
       /\ synced' = IF r.ok THEN [synced EXCEPT ![financial_data.userDID] = FALSE]
                    ELSE synced
       /\ ops' = [ops EXCEPT ![p] =
                    IF r.ok
                    THEN Return(Log(o, "save"),
                                [NoResult EXCEPT !.found = TRUE, !.dataPointer = r.hash])
                    ELSE Raise(Log(o, "save_failed"), "AttributeError")]
       /\ UNCHANGED << otpVars, encrypted, ledgerVars, dirVars, live, okBefore >>

Call_add_asset(p, user_did, asset) ==
    /\ ops[p].kind = "idle"
    /\ ops' = [ops EXCEPT ![p] =
                 load_or_new(p, [Idle EXCEPT !.kind = "add_asset", !.addr = user_did,
                                             !.asset = asset, !.pre = Snapshot,
                                             !.overlap = MidCall(p, user_did)],
                             user_did, "add_asset_save")]
    /\ UNCHANGED << otpVars, files, last_saved, encrypted, ledgerVars, dirVars, live, okBefore, synced >>

add_asset_save(p) ==
    /\ ops[p].pc = "add_asset_save"
    /\ save_and_return(p, [ops[p].rec EXCEPT
                             !.assets = upsert(ops[p].rec.assets, ops[p].asset, "assetID")])

Call_remove_asset(p, user_did, asset_id) ==
    /\ ops[p].kind = "idle"
    /\ ops' = [ops EXCEPT ![p] =
                 load_or_none(p, [Idle EXCEPT !.kind = "remove_asset", !.addr = user_did,
                                              !.entryID = asset_id, !.pre = Snapshot,
                                              !.overlap = MidCall(p, user_did)],
                              user_did, "remove_asset_save")]
    /\ UNCHANGED << otpVars, files, last_saved, encrypted, ledgerVars, dirVars, live, okBefore, synced >>

remove_asset_save(p) ==
    /\ ops[p].pc = "remove_asset_save"
    /\ save_and_return(p, [ops[p].rec EXCEPT
                             !.assets = without(ops[p].rec.assets, ops[p].entryID, "assetID")])

Call_add_liability(p, user_did, liability) ==
    /\ ops[p].kind = "idle"
    /\ ops' = [ops EXCEPT ![p] =
                 load_or_new(p, [Idle EXCEPT !.kind = "add_liability", !.addr = user_did,
                                             !.liability = liability, !.pre = Snapshot,
                                             !.overlap = MidCall(p, user_did)],
                             user_did, "add_liability_save")]
    /\ UNCHANGED << otpVars, files, last_saved, encrypted, ledgerVars, dirVars, live, okBefore, synced >>

add_liability_save(p) ==
    /\ ops[p].pc = "add_liability_save"
    /\ save_and_return(p, [ops[p].rec EXCEPT
                             !.liabilities = upsert(ops[p].rec.liabilities, ops[p].liability,
                                                    "liabilityID")])

Call_remove_liability(p, user_did, liability_id) ==
    /\ ops[p].kind = "idle"
    /\ ops' = [ops EXCEPT ![p] =
                 load_or_none(p, [Idle EXCEPT !.kind = "remove_liability", !.addr = user_did,
                                              !.entryID = liability_id, !.pre = Snapshot,
                                              !.overlap = MidCall(p, user_did)],
                              user_did, "remove_liability_save")]
    /\ UNCHANGED << otpVars, files, last_saved, encrypted, ledgerVars, dirVars, live, okBefore, synced >>

remove_liability_save(p) ==
    /\ ops[p].pc = "remove_liability_save"
    /\ save_and_return(p, [ops[p].rec EXCEPT
                             !.liabilities = without(ops[p].rec.liabilities, ops[p].entryID,
                                                     "liabilityID")])

(***************************************************************************)
(* The calls of IdentityVerification.  verify_email_otp is split at its    *)
(* reads and writes of the two process-wide dictionaries.                  *)
(***************************************************************************)
\* A faulty issue, for comparison: an outstanding code is kept.
issue_keep_outstanding(store, addr, otp, expires_at) ==
    IF store[addr].set THEN store ELSE [store EXCEPT ![addr] = OtpEntry(otp, expires_at)]

\* self._otp_store[addr] = (otp, time.time() + self.otp_ttl)
issue(store, addr, otp, expires_at) == [store EXCEPT ![addr] = OtpEntry(otp, expires_at)]

generate_email_otp(p, address) ==
    /\ ops[p].kind = "idle"
    /\ LET n == normalize(address)
           o == [Idle EXCEPT !.kind = "generate_email_otp", !.ident = address,
                             !.addr = n.val, !.pre = Snapshot]
       IN IF ~n.ok
          THEN /\ ops' = [ops EXCEPT ![p] = Raise(o, "ValueError")]
               /\ UNCHANGED << otp_store, otp_log >>
          ELSE \E otp \in Codes :
               /\ otp_store' = issue(otp_store, n.val, otp, clock + otp_ttl)
               /\ otp_log' = [otp_log EXCEPT ![n.val] =
                                [consumed |-> "",
                                 failed |-> FALSE,
                                 last |-> otp,
                                 earlier |-> IF @.last = "" THEN @.earlier
                                             ELSE @.earlier \cup {@.last}]]
               /\ ops' = [ops EXCEPT ![p] = Return(o, [NoResult EXCEPT !.text = otp])]
    /\ UNCHANGED << verifications, clock, files, last_saved, encrypted, ledgerVars, dirVars, live,
                    okBefore, synced >>

\* addr = self._normalize(address); record = self._otp_store.get(addr)
Call_verify_email_otp(p, address, otp) ==
    /\ ops[p].kind = "idle"
    /\ LET n == normalize(address)
           o == [Idle EXCEPT !.kind = "verify_email_otp", !.ident = address,
                             !.addr = n.val, !.otp = otp, !.pre = Snapshot]
       IN ops' = [ops EXCEPT ![p] =
                    IF ~n.ok
                    THEN Raise(o, "ValueError")
                    ELSE [o EXCEPT !.pc = "veo_check",
                                   !.record = otp_store[n.val],
                                   !.usedBefore = (otp_log[n.val].consumed = otp),
                                   !.superseded = (otp \in otp_log[n.val].earlier),
                                   !.overlap = \E q \in live \ {p} :
                                                  /\ ops[q].addr = n.val
                                                  /\ ops[q].pc \in {"veo_check", "veo_record",
                                                                    "veo_delete"}]]
    /\ UNCHANGED << otpVars, files, last_saved, encrypted, ledgerVars, dirVars, live, okBefore, synced >>

\* A faulty expiry test, for comparison: a code never expires.
expired_never(t, expires_at) == FALSE

\* time.time() > expires_at
expired(t, expires_at) == t > expires_at

\* A faulty check, for comparison: only a missing code is refused.
veo_after_check_lenient(record, otp, t) ==
    IF ~record.set THEN "return_false" ELSE "veo_record"

\* `if not record`, `if time.time() > expires_at or otp != expected`.
veo_after_check(record, otp, t) ==
    IF ~record.set
    THEN "return_false"
    ELSE IF expired(t, record.expires_at) \/ otp # record.otp
    THEN "return_false"
    ELSE "veo_record"

veo_check(p) ==
    /\ ops[p].pc = "veo_check"
    /\ LET o == Log(ops[p], "check")
           next == veo_after_check(o.record, o.otp, clock)
       IN /\ ops' = [ops EXCEPT ![p] =
                       IF next = "return_false" THEN Return(o, NoResult)
                       ELSE [o EXCEPT !.pc = next]]
          /\ otp_log' = [otp_log EXCEPT ![o.addr].failed = @ \/ next = "return_false"]
    /\ UNCHANGED << otp_store, verifications, clock, files, last_saved, encrypted, ledgerVars, dirVars,
                    live, okBefore, synced >>

\* A faulty write, for comparison: the entry of the address is replaced by
\* one that holds the new proof only.
set_proof_alone(store, addr, slot, hash) ==
    [store EXCEPT ![addr] = [NoProofs EXCEPT ![slot] = hash]]

\* self._verifications.setdefault(addr, {})[slot] = hash
set_proof(store, addr, slot, hash) == [store EXCEPT ![addr] = [@ EXCEPT ![slot] = hash]]

\* self._verifications.setdefault(addr, {})["email_hash"] = email_hash
veo_record(p) ==
    /\ ops[p].pc = "veo_record"
    /\ verifications' = set_proof(verifications, ops[p].addr, "email_hash",
                                  hexdigest(ops[p].otp))
    /\ ops' = [ops EXCEPT ![p] = [Log(@, "record") EXCEPT !.pc = "veo_delete"]]
    /\ UNCHANGED << otp_store, clock, otp_log, files, last_saved, encrypted, ledgerVars, dirVars, live,
                    okBefore, synced >>

\* A faulty delete, for comparison: the verified code stays on file.
consume_keep(store, addr) == store

\* del self._otp_store[addr]
consume(store, addr) == [store EXCEPT ![addr] = NoOtp]

\* The delete raises KeyError when the entry is gone.
veo_delete(p) ==
    /\ ops[p].pc = "veo_delete"
    /\ LET o == ops[p] IN
       IF ~otp_store[o.addr].set
       THEN /\ ops' = [ops EXCEPT ![p] = Raise(Log(o, "delete_failed"), "KeyError")]
            /\ UNCHANGED << otp_store, otp_log >>
       ELSE /\ otp_store' = consume(otp_store, o.addr)
            /\ otp_log' = [otp_log EXCEPT ![o.addr].consumed = o.otp]
            /\ ops' = [ops EXCEPT ![p] =
                         Return(Log(o, "delete"), [NoResult EXCEPT !.bool = TRUE])]
    /\ UNCHANGED << verifications, clock, files, last_saved, encrypted, ledgerVars, dirVars, live,
                    okBefore, synced >>

\* record_national_id: stores and returns the hash of the ID number.
record_national_id(p, address, id_number) ==
    /\ ops[p].kind = "idle"
    /\ LET n == normalize(address)
           o == [Idle EXCEPT !.kind = "record_national_id", !.ident = address,
                             !.addr = n.val, !.pre = Snapshot]
       IN IF ~n.ok
          THEN /\ ops' = [ops EXCEPT ![p] = Raise(o, "ValueError")]
               /\ UNCHANGED verifications
          ELSE /\ verifications' = set_proof(verifications, n.val, "national_id_hash",
                                             hexdigest(id_number))
               /\ ops' = [ops EXCEPT ![p] = Return(o, [NoResult EXCEPT !.found = TRUE])]
    /\ UNCHANGED << otp_store, clock, otp_log, files, last_saved, encrypted, ledgerVars, dirVars, live,
                    okBefore, synced >>

\* A faulty test, for comparison: one proof is enough.
both_proofs_either(data) == data.email_hash # NoHash \/ data.national_id_hash # NoHash

\* "email_hash" in data and "national_id_hash" in data
both_proofs(data) == data.email_hash # NoHash /\ data.national_id_hash # NoHash

is_verified(p, address) ==
    /\ ops[p].kind = "idle"
    /\ LET n == normalize(address)
           o == [Idle EXCEPT !.kind = "is_verified", !.ident = address,
                             !.addr = n.val, !.pre = Snapshot]
       IN ops' = [ops EXCEPT ![p] =
                    IF ~n.ok THEN Raise(o, "ValueError")
                    ELSE Return(o, [NoResult EXCEPT !.bool = both_proofs(verifications[n.val])])]
    /\ UNCHANGED << otpVars, files, last_saved, encrypted, ledgerVars, dirVars, live, okBefore, synced >>

\* Time passes between calls.
TickClock ==
    /\ AllIdle
    /\ clock < MaxClock
    /\ clock' = clock + 1
    /\ UNCHANGED << otp_store, verifications, otp_log, files, last_saved, encrypted, ledgerVars, dirVars,
                    ops, live, okBefore, synced >>

(***************************************************************************)
(* Calls made on the store and the directory directly.                     *)
(***************************************************************************)
\* FinancialDataStorage.save called on its own: nothing is anchored.
storage_save(p, financial_data) ==
    /\ ops[p].kind = "idle"
    /\ save(financial_data).ok
    /\ files' = save(financial_data).files
    /\ last_saved' = [last_saved EXCEPT ![financial_data.userDID] = Saved(financial_data)]
    /\ synced' = [synced EXCEPT ![financial_data.userDID] = FALSE]
    /\ UNCHANGED << otpVars, encrypted, ledgerVars, dirVars, ops, live, okBefore >>

\* UserDirectory.register_username.
register_username(p, username, user_address) ==
    /\ ops[p].kind = "idle"
    /\ LET username_lower == Lower(username)
           o == [Idle EXCEPT !.kind = "register_username", !.ident = username,
                             !.addr = user_address, !.pre = Snapshot]
       IN IF username_to_address[username_lower] # Absent
          THEN /\ ops' = [ops EXCEPT ![p] = Return(o, NoResult)]
               /\ UNCHANGED dirVars
          ELSE IF user_address \notin WellFormed
          THEN /\ ops' = [ops EXCEPT ![p] = Raise(o, "ValueError")]
               /\ UNCHANGED dirVars
          ELSE /\ username_to_address' =
                     [username_to_address EXCEPT ![username_lower] = user_address]
               /\ address_to_username' =
                     [address_to_username EXCEPT ![Lower(user_address)] = username_lower]
               /\ ops' = [ops EXCEPT ![p] = Return(o, [NoResult EXCEPT !.bool = TRUE])]
    /\ UNCHANGED << otpVars, files, last_saved, encrypted, ledgerVars, live, okBefore, synced >>

\* FinancialDataStorage.save called on its own, its outcome kept.
Call_save(p, financial_data) ==
    /\ ops[p].kind = "idle"
    /\ LET r == save(financial_data)
           o == [Idle EXCEPT !.kind = "save", !.addr = financial_data.userDID,
                             !.rec = financial_data, !.pre = Snapshot]
       IN /\ files' = r.files
          /\ last_saved' = IF r.ok
                           THEN [last_saved EXCEPT ![financial_data.userDID] = Saved(financial_data)]
                           ELSE last_saved
          /\ synced' = IF r.ok THEN [synced EXCEPT ![financial_data.userDID] = FALSE]
                       ELSE synced
          /\ ops' = [ops EXCEPT ![p] =
                       IF r.ok
                       THEN Return(o, [NoResult EXCEPT !.found = TRUE, !.dataPointer = r.hash])
                       ELSE Raise(o, "AttributeError")]
    /\ UNCHANGED << otpVars, encrypted, ledgerVars, dirVars, live, okBefore >>

\* FinancialDataStorage.load called on its own.
Call_load(p, user_did) ==
    /\ ops[p].kind = "idle"
    /\ LET o == [Idle EXCEPT !.kind = "load", !.addr = user_did, !.pre = Snapshot]
           r == load(user_did)
       IN ops' = [ops EXCEPT ![p] =
                    CASE r.tag = "none" -> Return(o, NoResult)
                      [] r.tag = "data" -> Return(o, [NoResult EXCEPT !.found = TRUE,
                                                                       !.data = r.data])
                      [] OTHER -> Raise(o, "DecodeError")]
    /\ UNCHANGED << otpVars, files, last_saved, encrypted, ledgerVars, dirVars, live,
                    okBefore, synced >>

\* FinancialDataService.compute_summary, called on its own.
Call_compute_summary(p, financial_data, annual_income, total_credit_limit) ==
    /\ ops[p].kind = "idle"
    /\ ops' = [ops EXCEPT ![p] =
                 Return([Idle EXCEPT !.kind = "compute_summary", !.rec = financial_data,
                                     !.income = annual_income, !.limit = total_credit_limit,
                                     !.pre = Snapshot],
                        [NoResult EXCEPT !.summary = compute_summary(financial_data, annual_income,
                                                                     total_credit_limit)])]
    /\ UNCHANGED << otpVars, files, last_saved, encrypted, ledgerVars, dirVars, live,
                    okBefore, synced >>

\* UserDirectory.get_address, called on its own.
Call_get_address(p, username) ==
    /\ ops[p].kind = "idle"
    /\ ops' = [ops EXCEPT ![p] =
                 Return([Idle EXCEPT !.kind = "get_address", !.ident = username,
                                     !.pre = Snapshot],
                        [NoResult EXCEPT !.text = get_address(username)])]
    /\ UNCHANGED << otpVars, files, last_saved, encrypted, ledgerVars, dirVars, live, okBefore, synced >>

\* UserDirectory.update_username.
update_username(p, old_username, new_username) ==
    /\ ops[p].kind = "idle"
    /\ LET old_lower == Lower(old_username)
           new_lower == Lower(new_username)
           address == username_to_address[old_lower]
           o == [Idle EXCEPT !.kind = "update_username", !.ident = old_username,
                             !.new_username = new_username, !.pre = Snapshot]
       IN IF username_to_address[old_lower] = Absent
          THEN /\ ops' = [ops EXCEPT ![p] = Return(o, NoResult)]
               /\ UNCHANGED dirVars
          ELSE IF username_to_address[new_lower] # Absent /\ new_lower # old_lower
          THEN /\ ops' = [ops EXCEPT ![p] = Return(o, NoResult)]
               /\ UNCHANGED dirVars
          ELSE /\ username_to_address' =
                     [[username_to_address EXCEPT ![old_lower] = Absent]
                         EXCEPT ![new_lower] = address]
               /\ address_to_username' =
                     [address_to_username EXCEPT ![Lower(address)] = new_lower]
               /\ ops' = [ops EXCEPT ![p] = Return(o, [NoResult EXCEPT !.bool = TRUE])]
    /\ UNCHANGED << otpVars, files, last_saved, encrypted, ledgerVars, live, okBefore, synced >>

\* UserDirectory.unregister_username.  The second del raises KeyError when
\* the address has no entry, after the first del has been done.
unregister_username(p, username) ==
    /\ ops[p].kind = "idle"
    /\ LET username_lower == Lower(username)
           address == username_to_address[username_lower]
           o == [Idle EXCEPT !.kind = "unregister_username", !.ident = username,
                             !.pre = Snapshot]
       IN IF username_to_address[username_lower] = Absent
          THEN /\ ops' = [ops EXCEPT ![p] = Return(o, NoResult)]
               /\ UNCHANGED dirVars
          ELSE /\ username_to_address' = [username_to_address EXCEPT ![username_lower] = Absent]
               /\ IF address_to_username[Lower(address)] = Absent
                  THEN /\ ops' = [ops EXCEPT ![p] = Raise(o, "KeyError")]
                       /\ UNCHANGED address_to_username
                  ELSE /\ address_to_username' =
                             [address_to_username EXCEPT ![Lower(address)] = Absent]
                       /\ ops' = [ops EXCEPT ![p] =
                                    Return(o, [NoResult EXCEPT !.bool = TRUE])]
    /\ UNCHANGED << otpVars, files, last_saved, encrypted, ledgerVars, live, okBefore, synced >>

(***************************************************************************)
(* The environment, between calls: time passes, and somebody with access   *)
(* to the data directory rewrites a stored file.                           *)
(***************************************************************************)
Tick ==
    /\ AllIdle
    /\ now < MaxTime
    /\ now' = now + 1
    /\ UNCHANGED << otpVars, files, last_saved, encrypted, pointer, profile, consents, dirVars, ops, live, okBefore, synced >>

\* The bytes are overwritten by bytes that are no JSON and no cipher token.
\* (A rewrite to another well-formed record is what storage_save does.)
Tamper(a) ==
    /\ AllIdle
    /\ files[a].kind # "none"
    /\ files[a] # Garbage
    /\ files' = [files EXCEPT ![a] = Garbage]
    /\ last_saved' = [last_saved EXCEPT ![a] = NotSaved]
    /\ synced' = [b \in WellFormed |-> IF b = a THEN FALSE ELSE synced[b]]
    /\ UNCHANGED << otpVars, encrypted, ledgerVars, dirVars, ops, live, okBefore >>

\* The caller takes the outcome; the slot is free again.
ServedPair(o) == << AcctOf(o.addr), AcctOf(o.requester) >>

Retire(p) ==
    /\ ops[p].pc = "done"
    /\ ops' = [q \in Slots |-> IF q = p THEN Idle ELSE [ops[q] EXCEPT !.overlap = FALSE]]
    /\ okBefore' =
         IF ops[p].kind = "fetch" /\ ops[p].result.tag = "return" /\ ops[p].result.found
         THEN [okBefore EXCEPT ![ServedPair(ops[p])] = TRUE]
         ELSE okBefore
    /\ UNCHANGED << otpVars, files, last_saved, encrypted, ledgerVars, dirVars, live, synced >>

(***************************************************************************)
(* The save endpoint of the API (api/server.py).                           *)
(***************************************************************************)
\* Account.from_key(key).address: the checksum spelling of the key's address.
\* The requester's address has one spelling here.
from_key_address(key) ==
    CASE key = OwnerAcct -> OwnerChecksum
      [] key = RequesterAcct -> RequesterLower
      [] OTHER -> BadAddr

\* A faulty comparison, for comparison: every owner is accepted.
owner_matches_any(userDID, derived_address) == TRUE

\* financial_model.userDID.lower() == derived_address.lower()
owner_matches(userDID, derived_address) == Lower(userDID) = Lower(derived_address)

\* to_financial_model: Liability() is called with dueDate and isOverdue, which
\* the dataclass does not declare; the records validate themselves.
to_financial_model(payload) ==
    IF payload.liabilities # << >>
    THEN [ok |-> FALSE, exc |-> "TypeError"]
    ELSE IF \/ \E i \in 1..Len(payload.assets) : ~Asset_post_init(payload.assets[i])
            \/ ~FinancialData_post_init(payload)
    THEN [ok |-> FALSE, exc |-> "ValueError"]
    ELSE [ok |-> TRUE, exc |-> ""]

\* save_financial_data, up to the call of save_financial_profile, whose steps
\* are sfp_save, sfp_anchor, sfp_summary and sfp_push.  The requests carry no
\* totalCreditLimit.
Call_save_financial_data(p, payload, userPrivateKey, validatorPrivateKey, annualIncome, validatorImpersonate) ==
    /\ ops[p].kind = "idle"
    /\ LET o == [Idle EXCEPT !.kind = "save_financial_data", !.rec = payload,
                             !.key = userPrivateKey, !.vkey = validatorPrivateKey,
                             !.income = annualIncome, !.impersonate = validatorImpersonate,
                             !.pre = Snapshot]
       IN ops' = [ops EXCEPT ![p] =
                    IF ~to_financial_model(payload).ok
                    THEN Raise(o, to_financial_model(payload).exc)
                    ELSE IF userPrivateKey \notin Keys
                    THEN Raise(o, "ValueError")
                    ELSE IF ~owner_matches(payload.userDID, from_key_address(userPrivateKey))
                    THEN Raise(o, "HTTPException")
                    ELSE [o EXCEPT !.pc = "sfp_save"]]
    /\ UNCHANGED << otpVars, files, last_saved, encrypted, ledgerVars, dirVars, live, okBefore, synced >>

\* save_financial_data, after save_financial_profile returned: the push as
\* the impersonated validator when no validator key was given, whose failure
\* is reported in the response; the validator() call is outside the try block.
sfd_respond(p) ==
    /\ ops[p].kind = "save_financial_data"
    /\ ops[p].pc = "done"
    /\ ops[p].result.tag = "return"
    /\ ~ops[p].responded
    /\ \E failValidator \in BOOLEAN, failPush \in BOOLEAN :
        LET o == [ops[p] EXCEPT !.responded = TRUE]
            summary == compute_summary(o.rec, o.income, o.limit)
            credit_enum == IndexOf(CREDIT_TIERS, summary.credit_tier)
            income_enum == IndexOf(INCOME_BANDS, summary.income_band)
            sent == credit_enum >= 0 /\ income_enum >= 0 /\ ~failPush
        IN IF o.vkey # NoKey \/ ~o.impersonate
           THEN /\ ops' = [ops EXCEPT ![p] = o]
                /\ UNCHANGED profile
           ELSE IF failValidator
           THEN /\ ops' = [ops EXCEPT ![p] = Raise(o, "ExternalFailure")]
                /\ UNCHANGED profile
           ELSE /\ profile' = IF sent
                              THEN Ledger_updateProfile(credit_enum, income_enum, AcctOf(o.rec.userDID))
                              ELSE profile
                /\ ops' = [ops EXCEPT ![p] =
                             [Log(o, IF sent THEN "push" ELSE "push_failed") EXCEPT
                                 !.result.profileReceipt = sent,
                                 !.result.profileError = ~sent]]
    /\ UNCHANGED << otpVars, files, last_saved, encrypted, pointer, consents, now, dirVars, live, okBefore, synced >>

\* The endpoint has answered: with an error, or with the response.
Responded(p) ==
    /\ ops[p].kind = "save_financial_data"
    /\ ops[p].pc = "done"
    /\ ops[p].result.tag = "raise" \/ ops[p].responded

(***************************************************************************)
(* The specification.                                                      *)
(***************************************************************************)
Init ==
    /\ files = [a \in Addresses |-> NoFile]
    /\ last_saved = [a \in Addresses |-> NotSaved]
    /\ encrypted \in BOOLEAN
    /\ pointer = [a \in Accounts |-> ZeroPointer]
    /\ profile = [a \in Accounts |-> NoProfile]
    /\ consents = [c \in ConsentPairs |-> NoConsent]
    /\ now = 0
    /\ username_to_address = [u \in LowerUsernames |-> Absent]
    /\ address_to_username = [a \in LowerAddresses |-> Absent]
    /\ ops = [p \in Slots |-> Idle]
    /\ live = {"s1"}
    /\ okBefore = [c \in ConsentPairs |-> FALSE]
    /\ synced = [a \in WellFormed |-> FALSE]
    /\ otp_store = [a \in LowerAddresses |-> NoOtp]
    /\ verifications = [a \in LowerAddresses |-> NoProofs]
    /\ clock = 0
    /\ otp_log = [a \in LowerAddresses |-> NoOtpLog]

Identifiers == WellFormed \cup {BadAddr} \cup Usernames
Incomes == {None, Some(60), Some(501)}
Limits == {None}

\* The write path and the integrity check: save_financial_profile,
\* verify_data_integrity, saves that are not anchored, rewritten files.
Next ==
    \/ \E p \in live, rec \in RecordInputs, key \in {OwnerAcct, RequesterAcct},
          vkey \in {NoKey, EmptyKey, ValidatorAcct, RequesterAcct},
          income \in Incomes, limit \in Limits :
            Call_save_financial_profile(p, rec, key, vkey, income, limit)
    \/ \E p \in live : sfp_save(p)
    \/ \E p \in live : sfp_anchor(p)
    \/ \E p \in live : sfp_summary(p)
    \/ \E p \in live : sfp_push(p)
    \/ \E p \in live, a \in {OwnerLower, OwnerChecksum, BadAddr} :
            verify_data_integrity(p, a)
    \/ \E p \in live, rec \in RecordInputs : storage_save(p, rec)
    \/ \E a \in {OwnerLower, OwnerChecksum} : Tamper(a)
    \/ \E p \in live : Retire(p)

Spec == Init /\ [][Next]_vars

\* The consent gate and the read path.  They read the store, the directory
\* and the consent records; the pointer and the profile stay as constructed.
NextConsent ==
    \/ \E p \in live, ident \in Identifiers, requester \in {RequesterLower, BadAddr} :
            Call_request_financial_file(p, ident, requester)
    \/ \E p \in live : rdu_lookup(p)
    \/ \E p \in live : rd_check(p)
    \/ \E p \in live : rd_load(p)
    \/ \E p \in live, a \in {OwnerLower, BadAddr}, r \in {RequesterLower, BadAddr} :
            is_consent_granted(p, a, r)
    \/ \E p \in live, r \in {RequesterLower, BadAddr} : get_consent_status(p, "alice", r)
    \/ \E p \in live, r \in {RequesterLower, BadAddr}, e \in now..MaxTime :
            Call_create_and_grant_consent(p, OwnerAcct, r, now, e)
    \/ \E p \in live : cag_create(p)
    \/ \E p \in live : cag_grant(p)
    \/ \E p \in live, r \in {RequesterLower, BadAddr}, st \in {"Granted", "Revoked"} :
            Call_change_consent_status(p, OwnerAcct, r, st)
    \/ \E p \in live, rec \in RecordInputs : storage_save(p, rec)
    \/ \E p \in live, u \in Usernames, a \in {OwnerLower, OwnerChecksum, BadAddr} :
            register_username(p, u, a)
    \/ \E a \in {OwnerLower, OwnerChecksum} : Tamper(a)
    \/ Tick
    \/ \E p \in live : Retire(p)

SpecConsent == Init /\ [][NextConsent]_vars

\* Two threads of one process call the store: both request slots are in use.
InitConcurrent ==
    /\ files = [a \in Addresses |-> NoFile]
    /\ last_saved = [a \in Addresses |-> NotSaved]
    /\ encrypted \in BOOLEAN
    /\ pointer = [a \in Accounts |-> ZeroPointer]
    /\ profile = [a \in Accounts |-> NoProfile]
    /\ consents = [c \in ConsentPairs |-> NoConsent]
    /\ now = 0
    /\ username_to_address = [u \in LowerUsernames |-> Absent]
    /\ address_to_username = [a \in LowerAddresses |-> Absent]
    /\ ops = [p \in Slots |-> Idle]
    /\ live = Slots
    /\ okBefore = [c \in ConsentPairs |-> FALSE]
    /\ synced = [a \in WellFormed |-> FALSE]
    /\ otp_store = [a \in LowerAddresses |-> NoOtp]
    /\ verifications = [a \in LowerAddresses |-> NoProofs]
    /\ clock = 0
    /\ otp_log = [a \in LowerAddresses |-> NoOtpLog]

StoreAssets == { Asset("a1", 100, 100), Asset("a1", 70, 100), Asset("a2", 50, 50) }
StoreLiabilities == { Liability("l1", 20, 1) }

\* The record store under concurrent load-mutate-save calls.
NextStore ==
    \/ \E p \in live, d \in {OwnerLower, BadAddr}, a \in StoreAssets : Call_add_asset(p, d, a)
    \/ \E p \in live : add_asset_save(p)
    \/ \E p \in live, d \in {OwnerLower, BadAddr}, id \in {"a1", "a2"} :
            Call_remove_asset(p, d, id)
    \/ \E p \in live : remove_asset_save(p)
    \/ \E p \in live, d \in {OwnerLower}, l \in StoreLiabilities : Call_add_liability(p, d, l)
    \/ \E p \in live : add_liability_save(p)
    \/ \E p \in live, d \in {OwnerLower}, id \in {"l1"} : Call_remove_liability(p, d, id)
    \/ \E p \in live : remove_liability_save(p)
    \/ \E p \in live : Retire(p)

SpecStore == InitConcurrent /\ [][NextStore]_vars

SyncRecords ==
    { FinancialData(OwnerLower, AssetsOne, << >>), FinancialData(OwnerLower, AssetsTwo, << >>) }

\* Two threads of one process call save_financial_profile for one owner.
NextSyncRace ==
    \/ \E p \in live, rec \in SyncRecords, vkey \in {NoKey, ValidatorAcct} :
            Call_save_financial_profile(p, rec, OwnerAcct, vkey, None, None)
    \/ \E p \in live : sfp_save(p)
    \/ \E p \in live : sfp_anchor(p)
    \/ \E p \in live : sfp_summary(p)
    \/ \E p \in live : sfp_push(p)
    \/ \E p \in live : verify_data_integrity(p, OwnerLower)
    \/ \E p \in live : Retire(p)

SpecSyncRace == InitConcurrent /\ [][NextSyncRace]_vars

\* The save endpoint, one request at a time.
NextEndpoint ==
    \/ \E p \in live, payload \in RecordInputs, key \in {OwnerAcct, RequesterAcct, EmptyKey},
          vkey \in {NoKey, ValidatorAcct}, income \in {None, Some(60)}, imp \in BOOLEAN :
            Call_save_financial_data(p, payload, key, vkey, income, imp)
    \/ \E p \in live : sfp_save(p)
    \/ \E p \in live : sfp_anchor(p)
    \/ \E p \in live : sfp_summary(p)
    \/ \E p \in live : sfp_push(p)
    \/ \E p \in live : sfd_respond(p)
    \/ \E p \in live : Responded(p) /\ Retire(p)

SpecEndpoint == Init /\ [][NextEndpoint]_vars

\* The records handed to save on its own: with and without assets,
\* liabilities and metadata, the metadata absent, empty or filled.
RoundTripAssets == {<< >>} \cup { << AssetWith("a1", 100, 100, m) >> : m \in Metadata }
RoundTripLiabilities == {<< >>, << Liability("l1", 20, 1) >>}
RoundTripRecords ==
    { FinancialDataWith(OwnerLower, a, l, m) :
        a \in RoundTripAssets, l \in RoundTripLiabilities, m \in Metadata }

\* The store on its own, one call at a time.
NextRoundTrip ==
    \/ \E p \in live, rec \in RoundTripRecords : Call_save(p, rec)
    \/ \E p \in live, a \in {OwnerLower, RequesterLower} : Call_load(p, a)
    \/ \E p \in live : Retire(p)

SpecRoundTrip == Init /\ [][NextRoundTrip]_vars

\* The records handed to save and the entries handed to add_asset when the
\* store is called from one thread: well-formed ones, a record with one
\* asset ID twice, and objects whose fields were changed after construction
\* (a negative value, a percentage above 100, a malformed userDID).
SeqRecords ==
    { FinancialData(OwnerLower, AssetsOne, << >>),
      FinancialData(OwnerLower, AssetsTwo, << >>),
      FinancialData(OwnerLower, AssetsOne, LiabOne),
      FinancialData(OwnerLower, << Asset("a1", 100, 100), Asset("a1", 70, 100) >>, << >>),
      FinancialData(OwnerLower, << Asset("a1", 100, 150) >>, << >>),
      FinancialData(BadAddr, AssetsOne, << >>) }
SeqAssets == StoreAssets \cup { Asset("a2", -5, 100) }

\* The record store called from one thread.
NextStoreSeq ==
    \/ \E p \in live, rec \in SeqRecords : Call_save(p, rec)
    \/ \E p \in live, d \in {OwnerLower, BadAddr}, a \in SeqAssets : Call_add_asset(p, d, a)
    \/ \E p \in live : add_asset_save(p)
    \/ \E p \in live, d \in {OwnerLower, BadAddr}, id \in {"a1", "a2"} :
            Call_remove_asset(p, d, id)
    \/ \E p \in live : remove_asset_save(p)
    \/ \E p \in live, d \in {OwnerLower}, l \in StoreLiabilities : Call_add_liability(p, d, l)
    \/ \E p \in live : add_liability_save(p)
    \/ \E p \in live, d \in {OwnerLower}, id \in {"l1"} : Call_remove_liability(p, d, id)
    \/ \E p \in live : remove_liability_save(p)
    \/ \E p \in live : Retire(p)

SpecStoreSeq == Init /\ [][NextStoreSeq]_vars

\* The records and contexts compute_summary is called with: the amounts are
\* chosen to land on, next to and beyond the limits of the score, the tiers
\* and the bands, and so that every product stays below 2^31.
ScoringCases ==
    LET none == FinancialData(OwnerLower, << >>, << >>)
        small == { none,
                   FinancialData(OwnerLower, AssetsOne, << Liability("l1", 20, 5) >>),
                   FinancialData(OwnerLower, AssetsTwo, << >>),
                   FinancialData(OwnerLower, AssetsTwo,
                                 << Liability("l1", 20, 5), Liability("l2", 10, 2) >>) }
        large == { FinancialData(OwnerLower, << Asset("a1", 2000, 100) >>, << >>),
                   FinancialData(OwnerLower, << Asset("a1", 1990, 100) >>, << >>),
                   FinancialData(OwnerLower, << Asset("a1", 4000, 100) >>, << >>),
                   FinancialData(OwnerLower, << >>, << Liability("l1", 1600, 0) >>),
                   FinancialData(OwnerLower, << >>, << Liability("l1", 1601, 0) >>) }
        debt == FinancialData(OwnerLower, << >>, << Liability("l1", 2000, 5) >>)
        rich == { FinancialData(OwnerLower, << Asset("a1", 4000, 100) >>, << >>),
                  FinancialData(OwnerLower, << Asset("a1", 4000, 100) >>,
                                << Liability("l1", 20, 5) >>) }
    IN (small \X {None, Some(0), Some(-1), Some(60)} \X {None, Some(0), Some(-1), Some(25)})
       \cup (large \X {None, Some(0)} \X {None, Some(0)})
       \cup {<< debt, Some(2), Some(25) >>}
       \cup (rich \X {Some(60)} \X {Some(25)})
       \cup { << none, Some(i), None >> : i \in {25, 26, 75, 76, 500, 501} }

\* The scoring service on its own.
NextScoring ==
    \/ \E p \in live, c \in ScoringCases : Call_compute_summary(p, c[1], c[2], c[3])
    \/ \E p \in live : Retire(p)

SpecScoring == Init /\ [][NextScoring]_vars

\* The user directory on its own, one call at a time.
NextDirectory ==
    \/ \E p \in live, u \in DirectoryUsernames, a \in Addresses : register_username(p, u, a)
    \/ \E p \in live, u \in DirectoryUsernames : Call_get_address(p, u)
    \/ \E p \in live, u, v \in DirectoryUsernames : update_username(p, u, v)
    \/ \E p \in live, u \in DirectoryUsernames : unregister_username(p, u)
    \/ \E p \in live : Retire(p)

SpecDirectory == Init /\ [][NextDirectory]_vars

OtpAddresses == {OwnerLower, OwnerChecksum, BadAddr}

\* Identity verification, one call at a time.
NextOtp ==
    \/ \E p \in live, a \in OtpAddresses : generate_email_otp(p, a)
    \/ \E p \in live, a \in OtpAddresses, otp \in Codes : Call_verify_email_otp(p, a, otp)
    \/ \E p \in live : veo_check(p)
    \/ \E p \in live : veo_record(p)
    \/ \E p \in live : veo_delete(p)
    \/ \E p \in live, a \in OtpAddresses, id \in IdNumbers : record_national_id(p, a, id)
    \/ \E p \in live, a \in OtpAddresses : is_verified(p, a)
    \/ TickClock
    \/ \E p \in live : Retire(p)

SpecOtp == Init /\ [][NextOtp]_vars

\* Identity verification called from two threads of the process.
NextOtpRace ==
    \/ \E p \in live, a \in {OwnerChecksum} : generate_email_otp(p, a)
    \/ \E p \in live, a \in {OwnerLower}, otp \in Codes : Call_verify_email_otp(p, a, otp)
    \/ \E p \in live : veo_check(p)
    \/ \E p \in live : veo_record(p)
    \/ \E p \in live : veo_delete(p)
    \/ TickClock
    \/ \E p \in live : Retire(p)

SpecOtpRace == InitConcurrent /\ [][NextOtpRace]_vars

(***************************************************************************)
(* Properties.  A property speaks about the call in a slot through the     *)
(* slot's record: its arguments, its outcome and what it did on the way.   *)
(***************************************************************************)
Events(o) == { o.trace[i] : i \in 1..Len(o.trace) }

Finished(p, kind) == ops[p].kind = kind /\ ops[p].pc = "done"

\* The bytes the store holds for a JSON document, and for a record it saved.
StoredDocument(j) == IF encrypted THEN Cipher(j) ELSE Plain(j)
Stored(rec) == StoredDocument(to_dict(rec).val)

Unauthorized(o) == o.result.tag = "raise" /\ o.result.exc = "PermissionError"

StepRank(e) ==
    CASE e \in {"save", "save_failed"} -> 1
      [] e \in {"anchor", "anchor_failed"} -> 2
      [] e = "summary" -> 3
      [] e \in {"push", "push_failed"} -> 4
      [] OTHER -> 0

KeySupplied(k) == k # NoKey /\ k # EmptyKey

C3_FailClosedEverywhere ==
    \A p \in live :
        LET o == ops[p]
            unusable == \/ o.remoteFailed
                        \/ o.addr \notin WellFormed
                        \/ o.requester \notin WellFormed
        IN /\ (Finished(p, "fetch") /\ "check" \in Events(o) /\ unusable)
              => Unauthorized(o)
           /\ (Finished(p, "is_consent_granted") /\ unusable)
              => o.result.tag = "return" /\ o.result.bool = FALSE

\* C4: save_financial_profile takes its steps in the order save, anchor,
\* summary, push; the pointer is written only after the record is in the
\* store; the push is made only after the pointer write succeeded and only
\* when a validator key was supplied.
C4_StepOrder ==
    \A p \in live :
        LET o == ops[p]
            t == o.trace
        IN o.kind = "save_financial_profile" =>
            /\ \A i, j \in 1..Len(t) : i < j => StepRank(t[i]) < StepRank(t[j])
            /\ \A i \in 1..Len(t) : StepRank(t[i]) > 0
            /\ (Events(o) \cap {"anchor", "anchor_failed"} # {})
               => "save" \in Events(o) /\ files[o.rec.userDID] = Stored(o.rec)
            /\ "summary" \in Events(o) => "anchor" \in Events(o)
            /\ (Events(o) \cap {"push", "push_failed"} # {})
               => /\ "anchor" \in Events(o)
                  /\ "summary" \in Events(o)
                  /\ KeySupplied(o.vkey)
            /\ pointer # o.pre.pointer
               => "anchor" \in Events(o) /\ pointer[o.key] = sha256(Plain(to_dict(o.rec).val))
            /\ profile # o.pre.profile => "push" \in Events(o)

C4_Witness ==
    \E p \in live :
        /\ Finished(p, "save_financial_profile")
        /\ ops[p].trace = << "save", "anchor", "summary", "push" >>
        /\ ops[p].result.tag = "return"

\* C5: when the pointer write fails the call fails after the save: the
\* store holds the new record (its fingerprint is the new one), the pointer
\* is as it was, and nothing is pushed.
C5_AnchorFailureAborts ==
    \A p \in live :
        LET o == ops[p] IN
        (Finished(p, "save_financial_profile") /\ "anchor_failed" \in Events(o)) =>
            /\ o.result.tag = "raise"
            /\ files[o.rec.userDID] = Stored(o.rec)
            /\ calculate_file_hash(o.rec.userDID) =
                   [tag |-> "hash", hash |-> sha256(Plain(to_dict(o.rec).val))]
            /\ pointer = o.pre.pointer
            /\ profile = o.pre.profile
            /\ Events(o) \cap {"summary", "push", "push_failed"} = {}

C5_Witness ==
    \E p \in live :
        /\ Finished(p, "save_financial_profile")
        /\ "anchor_failed" \in Events(ops[p])
        /\ ops[p].result.tag = "raise"
        /\ files # ops[p].pre.files
        /\ pointer = ops[p].pre.pointer

\* C6 (as stated): with a validator key supplied, a failed push does not
\* fail the call: the result is a success that carries the push error, the
\* pointer and the pointer receipt.
C6_PushFailureNonFatal ==
    \A p \in live :
        LET o == ops[p] IN
        (/\ Finished(p, "save_financial_profile")
         /\ KeySupplied(o.vkey)
         /\ "push_failed" \in Events(o))
        => /\ o.result.tag = "return"
           /\ o.result.profileError
           /\ o.result.pointerReceipt
           /\ o.result.dataPointer = o.hash

\* C7 (as stated): after a failed save_financial_profile or
\* create_and_grant_consent the state is the state before the call, or
\* differs from it only in that the record is saved and not anchored.
C7_FailureLeavesSanctionedState ==
    \A p \in live :
        LET o == ops[p]
            untouched == /\ files = o.pre.files
                         /\ pointer = o.pre.pointer
                         /\ profile = o.pre.profile
                         /\ consents = o.pre.consents
            savedNotAnchored ==
                         /\ o.kind = "save_financial_profile"
                         /\ files = [o.pre.files EXCEPT ![o.rec.userDID] = Stored(o.rec)]
                         /\ pointer = o.pre.pointer
                         /\ profile = o.pre.profile
                         /\ consents = o.pre.consents
        IN (/\ o.kind \in {"save_financial_profile", "create_and_grant_consent"}
            /\ o.pc = "done"
            /\ o.result.tag = "raise")
           => untouched \/ savedNotAnchored

C9_ChangeDetected ==
    \A p \in live :
        LET o == ops[p] IN
        (/\ Finished(p, "verify_data_integrity")
         /\ o.addr \in WellFormed
         /\ ~o.remoteFailed
         /\ pointer[AcctOf(o.addr)].kind = "digest"
         /\ files[o.addr].kind # "none"
         /\ files[o.addr] # StoredDocument(pointer[AcctOf(o.addr)].of.json))
        => o.result.tag = "return" /\ o.result.bool = FALSE

\* C10 (as stated): verify_data_integrity returns false and raises nothing
\* when no record is stored, when the stored content cannot be read, or
\* when the ledger read fails.
C10_VerifyNeverRaises ==
    \A p \in live :
        LET o == ops[p] IN
        (/\ Finished(p, "verify_data_integrity")
         /\ o.addr \in WellFormed
         /\ \/ files[o.addr].kind = "none"
            \/ encrypted /\ files[o.addr].kind # "cipher"
            \/ o.remoteFailed)
        => o.result.tag = "return" /\ o.result.bool = FALSE

HasAsset(user_did, id) ==
    /\ load(user_did).tag = "data"
    /\ \E i \in 1..Len(load(user_did).data.assets) :
           load(user_did).data.assets[i].assetID = id

\* C11 (as stated): when two add_asset calls for the same owner and with
\* different asset IDs run concurrently (one began while the other stood
\* between its load and its save) and both have returned, the stored record
\* holds both assets.
C11_NoLostUpdate ==
    \A p, q \in live :
        (/\ p # q
         /\ Finished(p, "add_asset") /\ ops[p].result.tag = "return"
         /\ Finished(q, "add_asset") /\ ops[q].result.tag = "return"
         /\ ops[p].addr = ops[q].addr
         /\ ops[p].asset.assetID # ops[q].asset.assetID
         /\ ops[q].overlap)
        => /\ HasAsset(ops[p].addr, ops[p].asset.assetID)
           /\ HasAsset(ops[p].addr, ops[q].asset.assetID)

(***************************************************************************)
(* One-time codes and verification proofs.                                 *)
(***************************************************************************)
ReturnedBool(o, b) == o.result.tag = "return" /\ o.result.bool = b

\* The code handed to verify_email_otp is the one on file when it was called.
CorrectCode(o) == o.record.set /\ o.otp = o.record.otp

\* C12: a verify_email_otp with the code that an earlier verify_email_otp
\* for the same address accepted, and with no generate_email_otp for that
\* address in between, returns False.
C12_SingleUse ==
    \A p \in live :
        (Finished(p, "verify_email_otp") /\ ops[p].usedBefore)
        => ReturnedBool(ops[p], FALSE)

C12_Witness ==
    \E p \in live :
        /\ Finished(p, "verify_email_otp")
        /\ ops[p].usedBefore
        /\ ReturnedBool(ops[p], FALSE)

\* C13: a verify_email_otp called when the clock is past the expiry of the
\* code on file (issue time plus otp_ttl) returns False, also with the right
\* code, and leaves the verification proofs as they were.
C13_ExpiredRefused ==
    \A p \in live :
        (/\ Finished(p, "verify_email_otp")
         /\ ops[p].record.set
         /\ clock > ops[p].record.expires_at)
        => /\ ReturnedBool(ops[p], FALSE)
           /\ verifications = ops[p].pre.verifications

C13_Witness ==
    \E p \in live :
        /\ Finished(p, "verify_email_otp")
        /\ CorrectCode(ops[p])
        /\ clock > ops[p].record.expires_at
        /\ ReturnedBool(ops[p], FALSE)

\* C14 (as stated): after a second generate_email_otp for an address, a
\* verify_email_otp with the code an earlier generate_email_otp returned
\* for that address does not succeed.
C14_OldCodeRefused ==
    \A p \in live :
        (Finished(p, "verify_email_otp") /\ ops[p].superseded)
        => ReturnedBool(ops[p], FALSE)

\* C15: a verify_email_otp that finds no code, an expired code or another
\* code returns False and leaves the code store and the proofs of every
\* address as they were; one with the code on file, not expired, returns
\* True, also after such a failure.
C15_FailureChangesNothing ==
    \A p \in live :
        LET o == ops[p] IN
        Finished(p, "verify_email_otp") /\ o.addr # ""
        => IF \/ ~o.record.set
              \/ clock > o.record.expires_at
              \/ o.otp # o.record.otp
           THEN /\ ReturnedBool(o, FALSE)
                /\ otp_store = o.pre.otp_store
                /\ verifications = o.pre.verifications
           ELSE ReturnedBool(o, TRUE)

C15_Witness ==
    \E p \in live :
        /\ Finished(p, "verify_email_otp")
        /\ CorrectCode(ops[p])
        /\ ops[p].pre.otp_store[ops[p].addr].set
        /\ otp_log[ops[p].addr].failed
        /\ ReturnedBool(ops[p], TRUE)

\* C16 (as stated): of two verify_email_otp calls for the same address whose
\* steps interleave, both with the code on file, at most one returns True
\* and neither raises.
C16_SingleUseConcurrent ==
    \A p, q \in live :
        (/\ p # q
         /\ Finished(p, "verify_email_otp") /\ Finished(q, "verify_email_otp")
         /\ ops[p].addr = ops[q].addr
         /\ ops[q].overlap
         /\ CorrectCode(ops[p]) /\ CorrectCode(ops[q]))
        => /\ ~(ReturnedBool(ops[p], TRUE) /\ ReturnedBool(ops[q], TRUE))
           /\ ops[p].result.tag = "return"
           /\ ops[q].result.tag = "return"

\* C17: is_verified returns True exactly when the address has both an email
\* proof and a national-ID proof on record, in whichever order they came.
C17_BothProofs ==
    \A p \in live :
        (Finished(p, "is_verified") /\ ops[p].addr # "")
        => /\ ops[p].result.tag = "return"
           /\ ops[p].result.bool
                = (/\ verifications[ops[p].addr].email_hash.kind = "hexdigest"
                   /\ verifications[ops[p].addr].national_id_hash.kind = "hexdigest")

C17_Witness ==
    \E p \in live :
        /\ Finished(p, "is_verified")
        /\ ReturnedBool(ops[p], TRUE)
        /\ verifications[ops[p].addr].email_hash.kind = "hexdigest"
        /\ verifications[ops[p].addr].national_id_hash.kind = "hexdigest"

(***************************************************************************)
(* The user directory.                                                     *)
(***************************************************************************)
\* C18 (as stated): whatever calls of register_username, update_username
\* and unregister_username were made, the two maps are inverses of each
\* other: a username bound to an address is the username of that address,
\* and the username of an address is bound to that address.
C18_MutualInverses ==
    /\ \A u \in LowerUsernames :
           username_to_address[u] # Absent
           => address_to_username[Lower(username_to_address[u])] = u
    /\ \A a \in LowerAddresses :
           address_to_username[a] # Absent
           => Lower(username_to_address[address_to_username[a]]) = a

\* C19: register_username with a name whose lower-case form is taken
\* returns False and leaves both maps as they were, and get_address gives,
\* for every spelling of a name, the address bound to its lower-case form.
C19_CaseInsensitive ==
    \A p \in live :
        LET o == ops[p] IN
        /\ (Finished(p, "register_username")
            /\ o.pre.username_to_address[Lower(o.ident)] # Absent)
           => /\ ReturnedBool(o, FALSE)
              /\ username_to_address = o.pre.username_to_address
              /\ address_to_username = o.pre.address_to_username
        /\ Finished(p, "get_address")
           => \A u \in DirectoryUsernames :
                  Lower(u) = Lower(o.ident) /\ Lower(u) \in DOMAIN username_to_address
                  => o.result.text = username_to_address[Lower(u)]

C19_Witness ==
    \E p \in live :
        /\ Finished(p, "register_username")
        /\ ops[p].ident = "Alice"
        /\ ops[p].pre.username_to_address["alice"] \notin {Absent, ops[p].addr}
        /\ Lower(ops[p].pre.username_to_address["alice"]) # Lower(ops[p].addr)
        /\ ReturnedBool(ops[p], FALSE)

(***************************************************************************)
(* The record store: save followed by load.                                *)
(***************************************************************************)
\* C20 (as stated): save accepts every record, and a load that follows the
\* save of a record returns that record, field for field (the model has no
\* timestamp field).
C20_RoundTrip ==
    \A p \in live :
        /\ Finished(p, "save") => ops[p].result.tag = "return"
        /\ (Finished(p, "load") /\ last_saved[ops[p].addr].set)
           => /\ ops[p].result.tag = "return"
              /\ ops[p].result.found
              /\ ops[p].result.data = last_saved[ops[p].addr].rec

(***************************************************************************)
(* The scoring service.                                                    *)
(***************************************************************************)
Bound(x, lo, hi) == IF x > hi THEN hi ELSE IF x < lo THEN lo ELSE x

\* The score the formula of the summary's own fields gives, times the
\* summary's scale (a multiple of 1000 and of both denominators).
FormulaScore(s) ==
    LET worth == Bound(s.net_worth100 * (s.scale \div 1000), (-200) * s.scale, 300 * s.scale)
        dtiTerm == IF s.dti.some
                   THEN Bound(200 * s.dti.num * (s.scale \div s.dti.den), 0, 250 * s.scale)
                   ELSE 0
        utilTerm == IF s.utilization.some
                    THEN Bound(400 * s.utilization.num * (s.scale \div s.utilization.den),
                               0, 250 * s.scale)
                    ELSE 0
    IN Bound(500 * s.scale + worth - dtiTerm - utilTerm, 0, 1000 * s.scale)

\* C25: the risk score of a summary is
\* clamp(500 + clamp(netWorth/10000, -200, 300) - clamp(dti*200, 0, 250)
\*       - clamp(utilization*400, 0, 250), 0, 1000)
\* of its own net worth, dti and utilization, an absent ratio counting 0.
C25_RiskScoreFormula ==
    \A p \in live :
        Finished(p, "compute_summary")
        => LET s == ops[p].result.summary IN
           /\ s.scale % 1000 = 0
           /\ s.scale % s.dti.den = 0
           /\ s.scale % s.utilization.den = 0
           /\ s.risk_score = FormulaScore(s)

C25_Witness ==
    \E p \in live :
        /\ Finished(p, "compute_summary")
        /\ ops[p].result.summary.dti.some
        /\ ops[p].result.summary.utilization.some
        /\ ops[p].result.summary.net_worth100 <= (-200) * 1000
        /\ ops[p].result.summary.risk_score = 0

\* One asset of 100000 owned in full, one liability of 20000 paying 500 a
\* month, an income of 60000 and a credit limit of 25000.
IsScenario(o) ==
    /\ o.kind = "compute_summary" /\ o.pc = "done"
    /\ Len(o.rec.assets) = 1
    /\ o.rec.assets[1].value = 100 /\ o.rec.assets[1].ownershipPercentage = 100
    /\ Len(o.rec.liabilities) = 1
    /\ o.rec.liabilities[1].amount = 20 /\ o.rec.liabilities[1].monthlyPayment = 5
    /\ o.income = Some(60)
    /\ o.limit = Some(25)

ScenarioRatios(s) ==
    /\ s.net_worth100 = 80 * 100
    /\ s.dti.some /\ 10 * s.dti.num = s.dti.den
    /\ s.utilization.some /\ 10 * s.utilization.num = 8 * s.utilization.den
    /\ s.income_band = "upto75k"

\* C26 (as stated): in the scenario the summary has net worth 80000, dti 0.1,
\* utilization 0.8, risk score 530, tier MidSilver and band upto75k.
C26_Scenario ==
    \A p \in live :
        IsScenario(ops[p])
        => /\ ScenarioRatios(ops[p].result.summary)
           /\ ops[p].result.summary.risk_score = 530 * ops[p].result.summary.scale
           /\ ops[p].result.summary.credit_tier = "MidSilver"

\* C26 (amended): in the scenario the summary has net worth 80000, dti 0.1,
\* utilization 0.8, risk score 238 (500 + 8 - 20 - 250), tier None and band
\* upto75k.
C26_ScenarioAmended ==
    \A p \in live :
        IsScenario(ops[p])
        => /\ ScenarioRatios(ops[p].result.summary)
           /\ ops[p].result.summary.risk_score = 238 * ops[p].result.summary.scale
           /\ ops[p].result.summary.credit_tier = "None"

C26_Witness ==
    \E p \in live :
        /\ IsScenario(ops[p])
        /\ ops[p].result.summary.risk_score = 238 * ops[p].result.summary.scale

TierThresholds == {0, 340, 380, 420, 460, 500, 540, 580, 620, 660, 700, 740, 800}

\* C27: the tier of a summary is the tier of the highest threshold of the
\* table that is at most the risk score, a score on a threshold included:
\* 700 gives LowPlatinum, 699 HighGold, and a score below 340 gives None.
C27_TierMapping ==
    /\ { tier_thresholds[i][1] : i \in 1..Len(tier_thresholds) } = TierThresholds
    /\ \A p \in live :
           Finished(p, "compute_summary")
           => LET s == ops[p].result.summary
                  reached == { t \in TierThresholds : t * s.scale <= s.risk_score }
                  top == CHOOSE t \in reached : \A u \in reached : u <= t
              IN /\ reached # {}
                 /\ \E i \in 1..Len(tier_thresholds) :
                        /\ tier_thresholds[i][1] = top
                        /\ tier_thresholds[i][2] = s.credit_tier
                 /\ s.risk_score = 700 * s.scale => s.credit_tier = "LowPlatinum"
                 /\ s.risk_score = 699 * s.scale => s.credit_tier = "HighGold"
                 /\ s.risk_score < 340 * s.scale => s.credit_tier = "None"

C27_Witness ==
    \E p \in live :
        /\ Finished(p, "compute_summary")
        /\ ops[p].result.summary.risk_score = 700 * ops[p].result.summary.scale
        /\ ops[p].result.summary.credit_tier = "LowPlatinum"

\* C28: the income band of a summary is the band of the lowest threshold
\* that is at least the income, an income on a threshold included; an
\* income above 500k gives moreThan500k; no income gives None, and nothing
\* else does.
C28_IncomeBandMapping ==
    \A p \in live :
        Finished(p, "compute_summary")
        => LET o == ops[p]
               band == o.result.summary.income_band
               fits == { i \in 1..Len(income_bands) : o.income.v <= income_bands[i][1] }
           IN /\ band = "None" <=> ~o.income.some
              /\ (o.income.some /\ o.income.v > 500) => band = "moreThan500k"
              /\ (o.income.some /\ o.income.v <= 500)
                 => \E i \in fits :
                        /\ band = income_bands[i][2]
                        /\ \A j \in fits : income_bands[i][1] <= income_bands[j][1]

C28_Witness ==
    \E p \in live :
        /\ Finished(p, "compute_summary")
        /\ ops[p].income = Some(25)
        /\ ops[p].result.summary.income_band = "upto25k"

\* C29: a summary has a dti exactly when the income is given and above 0,
\* and it is the monthly payments over a twelfth of the income; it has a
\* utilization exactly when the credit limit is given and above 0, and it
\* is the amounts owed over the limit.
C29_Ratios ==
    \A p \in live :
        Finished(p, "compute_summary")
        => LET o == ops[p]
               s == o.result.summary
           IN /\ s.dti.some <=> (o.income.some /\ o.income.v > 0)
              /\ s.dti.some
                 => /\ s.dti.den > 0
                    /\ s.dti.num * (10 * o.income.v)
                         = 12 * sum_monthly(o.rec.liabilities) * s.dti.den
              /\ s.utilization.some <=> (o.limit.some /\ o.limit.v > 0)
              /\ s.utilization.some
                 => /\ s.utilization.den > 0
                    /\ s.utilization.num * o.limit.v
                         = sum_amount(o.rec.liabilities) * s.utilization.den

C29_Witness ==
    \E p \in live :
        /\ Finished(p, "compute_summary")
        /\ Len(ops[p].rec.liabilities) = 2
        /\ ops[p].result.summary.dti.some
        /\ ops[p].result.summary.dti.num > 0
        /\ ops[p].limit = Some(0)
        /\ ~ops[p].result.summary.utilization.some

(***************************************************************************)
(* The record store called from one thread.                                *)
(***************************************************************************)
HasDocument(file) == file.kind \in {"plain", "cipher"}

\* The file an owner had when the call began decodes to a record.
LoadedBefore(o) ==
    /\ HasDocument(o.pre.files[o.addr])
    /\ from_dict(o.pre.files[o.addr].json).ok

\* The call began with a well-formed owner and no file, or a file that decodes.
CanStart(o) ==
    \/ o.pre.files[o.addr].kind = "none" /\ o.addr \in WellFormed
    \/ LoadedBefore(o)

Mutations == {"add_asset", "remove_asset", "add_liability", "remove_liability"}

\* C21 (as stated): save, add_asset, remove_asset, add_liability and
\* remove_liability return a digest for an owner whose file decodes (or who
\* has none), and the digest equals calculate_file_hash of the owner right
\* after the call and the SHA-256 of the plaintext JSON of the record,
\* with and without encryption.
C21_DigestIsFingerprint ==
    \A p \in live :
        LET o == ops[p] IN
        (/\ o.pc = "done"
         /\ \/ o.kind = "save" /\ o.addr \in WellFormed
            \/ o.kind \in {"add_asset", "add_liability"} /\ CanStart(o)
            \/ o.kind \in {"remove_asset", "remove_liability"} /\ LoadedBefore(o))
        => /\ o.result.tag = "return"
           /\ calculate_file_hash(o.addr).tag = "hash"
           /\ o.result.dataPointer = calculate_file_hash(o.addr).hash
           /\ o.result.dataPointer = sha256(Plain(to_dict(o.rec).val))

Entries(file, key) ==
    IF ~HasDocument(file) THEN << >>
    ELSE IF key = "assetID" THEN file.json.assets ELSE file.json.liabilities

\* `entry` was put into `before` by ID: in place of the first entry with
\* its ID, or at the end.
Upserted(before, after, entry, key) ==
    IF \E i \in 1..Len(before) : before[i][key] = entry[key]
    THEN /\ Len(after) = Len(before)
         /\ \E i \in 1..Len(before) :
                /\ before[i][key] = entry[key]
                /\ after = [before EXCEPT ![i] = entry]
    ELSE after = Append(before, entry)

\* C22 (as stated): add_asset and add_liability put the entry into the
\* owner's stored record by ID, in place of the entry with that ID or at the
\* end, and leave every other asset and liability as it was.
C22_UpsertById ==
    \A p \in live :
        LET o == ops[p] IN
        (o.pc = "done" /\ o.kind \in {"add_asset", "add_liability"} /\ CanStart(o))
        => /\ o.result.tag = "return"
           /\ IF o.kind = "add_asset"
              THEN /\ Upserted(Entries(o.pre.files[o.addr], "assetID"),
                               Entries(files[o.addr], "assetID"),
                               Asset_to_dict(o.asset), "assetID")
                   /\ Entries(files[o.addr], "liabilityID")
                        = Entries(o.pre.files[o.addr], "liabilityID")
              ELSE /\ Upserted(Entries(o.pre.files[o.addr], "liabilityID"),
                               Entries(files[o.addr], "liabilityID"),
                               o.liability, "liabilityID")
                   /\ Entries(files[o.addr], "assetID")
                        = Entries(o.pre.files[o.addr], "assetID")

\* C23: remove_asset and remove_liability with an ID that the owner's
\* stored record does not have return without an error, leave every file
\* (and so the fingerprint) as it was, and return the digest the record had
\* before the call.
C23_RemoveAbsentIsNoOp ==
    \A p \in live :
        LET o == ops[p]
            key == IF o.kind = "remove_asset" THEN "assetID" ELSE "liabilityID"
            before == Entries(o.pre.files[o.addr], key)
        IN (/\ o.pc = "done"
            /\ o.kind \in {"remove_asset", "remove_liability"}
            /\ LoadedBefore(o)
            /\ \A i \in 1..Len(before) : before[i][key] # o.entryID)
           => /\ o.result.tag = "return"
              /\ files = o.pre.files
              /\ o.result.dataPointer = sha256(Plain(o.pre.files[o.addr].json))
              /\ calculate_file_hash(o.addr).hash = o.result.dataPointer

C23_Witness ==
    \E p \in live :
        /\ Finished(p, "remove_asset")
        /\ LoadedBefore(ops[p])
        /\ Len(ops[p].pre.files[ops[p].addr].json.assets) = 1
        /\ ops[p].pre.files[ops[p].addr].json.assets[1].assetID # ops[p].entryID
        /\ ops[p].result.tag = "return"
        /\ files = ops[p].pre.files

Distinct(entries, key) ==
    \A i, j \in 1..Len(entries) : i # j => entries[i][key] # entries[j][key]

\* C24 (as stated): in every stored record the asset IDs are pairwise
\* distinct and the liability IDs are pairwise distinct.
C24_UniqueIds ==
    \A a \in Addresses :
        /\ Distinct(Entries(files[a], "assetID"), "assetID")
        /\ Distinct(Entries(files[a], "liabilityID"), "liabilityID")

\* C30 (as stated): no file holds a record with a malformed owner, an asset
\* of negative value or an asset with an ownership percentage outside 0..100.
C30_NothingMalformedStored ==
    \A a \in Addresses :
        HasDocument(files[a])
        => /\ files[a].json.userDID \in WellFormed
           /\ \A i \in 1..Len(files[a].json.assets) :
                  /\ files[a].json.assets[i].value >= 0
                  /\ files[a].json.assets[i].ownershipPercentage >= 0
                  /\ files[a].json.assets[i].ownershipPercentage <= 100

(***************************************************************************)
(* Further properties of the scoring service, the directory and the        *)
(* verification proofs.                                                    *)
(***************************************************************************)
\* C34: the risk score of every summary lies between 0 and 800, and it is
\* 800 only when the net worth is at least 3000000 (the net-worth term at
\* its cap of 300) and neither dti nor utilization takes anything off.
C34_ScoreRange ==
    \A p \in live :
        Finished(p, "compute_summary")
        => LET s == ops[p].result.summary IN
           /\ 0 <= s.risk_score
           /\ s.risk_score <= 800 * s.scale
           /\ s.risk_score = 800 * s.scale
              => /\ s.net_worth100 >= 300 * 1000
                 /\ s.credit_tier = "HighPlatinum"
                 /\ s.dti.some => s.dti.num <= 0
                 /\ s.utilization.some => s.utilization.num <= 0

C34_Witness ==
    \E p \in live :
        /\ Finished(p, "compute_summary")
        /\ ops[p].result.summary.risk_score = 800 * ops[p].result.summary.scale
        /\ ops[p].result.summary.dti.some
        /\ ops[p].result.summary.utilization.some

\* C36 (as stated): unregister_username returns; for a registered username
\* it returns True and afterwards neither the username nor its address has
\* an entry; for an unregistered one it returns False and changes nothing.
C36_UnregisterTotal ==
    \A p \in live :
        LET o == ops[p]
            was == o.pre.username_to_address[Lower(o.ident)]
        IN Finished(p, "unregister_username")
           => /\ o.result.tag = "return"
              /\ IF was # Absent
                 THEN /\ o.result.bool
                      /\ username_to_address[Lower(o.ident)] = Absent
                      /\ address_to_username[Lower(was)] = Absent
                 ELSE /\ ~o.result.bool
                      /\ username_to_address = o.pre.username_to_address
                      /\ address_to_username = o.pre.address_to_username

FullyVerified(store, a) ==
    store[a].email_hash.kind = "hexdigest" /\ store[a].national_id_hash.kind = "hexdigest"

\* C37: no step takes a proof away: an address that has both proofs has
\* them after every step, and a proof that is on record stays on record.
C37_ProofsKept ==
    [][\A a \in LowerAddresses :
          /\ FullyVerified(verifications, a) => FullyVerified(verifications', a)
          /\ verifications[a].email_hash.kind = "hexdigest"
             => verifications'[a].email_hash.kind = "hexdigest"
          /\ verifications[a].national_id_hash.kind = "hexdigest"
             => verifications'[a].national_id_hash.kind = "hexdigest"]_vars

\* Fully verified, with a code issued afterwards that has expired.
C37_Witness ==
    \E a \in LowerAddresses :
        /\ FullyVerified(verifications, a)
        /\ otp_store[a].set
        /\ clock > otp_store[a].expires_at
        /\ otp_log[a].failed


(***************************************************************************)
(* Further properties of the read path.                                    *)
(***************************************************************************)
ByUsername(o) == o.kind = "fetch" /\ o.ident \notin Addresses

\* C31 (as stated): on the read path "not found" is a returned outcome.  A
\* fetch by a username the directory does not hold returns without a record,
\* and makes neither a consent check nor a load; a fetch that passed the
\* consent check for an owner without a stored file returns without a record.
C31_NotFoundReturned ==
    \A p \in live :
        LET o == ops[p] IN
        Finished(p, "fetch") =>
            /\ (ByUsername(o) /\ o.pre.username_to_address[Lower(o.ident)] = Absent)
               => /\ o.result.tag = "return"
                  /\ ~o.result.found
                  /\ "check" \notin Events(o)
                  /\ "load" \notin Events(o)
            /\ ("load" \in Events(o) /\ files[get_file_path(o.addr)].kind = "none")
               => /\ o.result.tag = "return"
                  /\ ~o.result.found

\* The spellings of the address of the owner a request was resolved to.
Spellings(o) == { a \in WellFormed : AcctOf(a) = AcctOf(o.addr) }

\* C33 (as stated): for an owner registered under a username, with a saved
\* record and consent granted to the requester, a fetch by username returns
\* the record a fetch by address returns, whatever the letter case of the
\* address at registration and at the save.
C33_UsernameSameAsAddress ==
    \A p \in live :
        LET o == ops[p] IN
        (/\ Finished(p, "fetch")
         /\ ByUsername(o)
         /\ "check" \in Events(o)
         /\ o.granted
         /\ ~o.remoteFailed)
        => \A a \in Spellings(o) :
              load(a).tag = "data"
              => /\ o.result.tag = "return"
                 /\ o.result.found
                 /\ o.result.data = load(a).data


\* C39 (as stated): for the same owner, requester and ledger state, the
\* isGranted entry of a consent status report equals the answer of the
\* ledger's isConsentGranted; a record with status Granted whose window has
\* ended is not reported as granted.
C39_StatusAgreesWithGate ==
    \A p \in live :
        LET o == ops[p] IN
        (Finished(p, "get_consent_status") /\ o.result.found /\ o.result.text # "error")
        => o.result.bool = o.granted


(***************************************************************************)
(* Further properties of the write path.                                   *)
(***************************************************************************)
\* The profile a finished save_financial_profile pushed for its owner.
Pushed(o) == profile[AcctOf(o.rec.userDID)]

\* The indices name the tier and the band of the summary of the call.
IndicesOf(o, tiers, bands) ==
    /\ Pushed(o).set
    /\ Pushed(o).creditTier \in 0..(tiers - 1)
    /\ Pushed(o).incomeBand \in 0..(bands - 1)
    /\ CREDIT_TIERS[Pushed(o).creditTier + 1] = o.summary.credit_tier
    /\ INCOME_BANDS[Pushed(o).incomeBand + 1] = o.summary.income_band

\* The lookup of the tier and of the band of a computed summary succeeds.
LookupSucceeds(o) ==
    /\ \E i \in 1..Len(CREDIT_TIERS) : CREDIT_TIERS[i] = o.summary.credit_tier
    /\ \E i \in 1..Len(INCOME_BANDS) : INCOME_BANDS[i] = o.summary.income_band

\* C35 (as stated): the indices pushed by a profile update are the positions
\* of the computed tier and band in their enumerations, each of 13 values
\* including None; both indices lie in 0..12 and the lookup never fails.
C35_Indices ==
    \A p \in live :
        LET o == ops[p] IN
        /\ (Finished(p, "save_financial_profile") /\ "summary" \in Events(o)) => LookupSucceeds(o)
        /\ (Finished(p, "save_financial_profile") /\ "push" \in Events(o))
           => /\ Len(CREDIT_TIERS) = 13
              /\ Len(INCOME_BANDS) = 13
              /\ IndicesOf(o, 13, 13)

\* C35 (amended): the tiers are 13 values and the bands are 14 (None, the
\* twelve bounded bands and moreThan500k); the pushed indices are the
\* positions of the computed tier and band, the tier index in 0..12 and the
\* band index in 0..13, and the lookup never fails.
C35_IndicesAmended ==
    \A p \in live :
        LET o == ops[p] IN
        /\ (Finished(p, "save_financial_profile") /\ "summary" \in Events(o)) => LookupSucceeds(o)
        /\ (Finished(p, "save_financial_profile") /\ "push" \in Events(o))
           => /\ Len(CREDIT_TIERS) = 13
              /\ Len(INCOME_BANDS) = 14
              /\ IndicesOf(o, 13, 14)

C35_Witness ==
    \E p \in live :
        /\ Finished(p, "save_financial_profile")
        /\ "push" \in Events(ops[p])
        /\ ops[p].summary.income_band = "moreThan500k"
        /\ Pushed(ops[p]).incomeBand = 13


\* Both request slots hold a save_financial_profile of the owner that returned.
BothSynced(owner) ==
    \A p \in Slots :
        /\ Finished(p, "save_financial_profile")
        /\ ops[p].result.tag = "return"
        /\ ops[p].rec.userDID = owner
        /\ ops[p].key = AcctOf(owner)

\* What verify_data_integrity compares: the digest of the stored file and the
\* pointer on the ledger.
Intact(owner) ==
    /\ calculate_file_hash(owner).tag = "hash"
    /\ ensure_bytes32(calculate_file_hash(owner).hash).val = ensure_bytes32(pointer[AcctOf(owner)]).val

\* C32 (as stated): when two save_financial_profile calls for the same owner,
\* their save and anchor steps interleaved in any order, have both returned,
\* the pointer on the ledger is the digest of the stored record, which is
\* what verify_data_integrity for the owner compares.
C32_ConcurrentSyncAgrees == BothSynced(OwnerLower) => Intact(OwnerLower)


(***************************************************************************)
(* Properties of the save endpoint.                                        *)
(***************************************************************************)
\* The request names an owner that is not the address of its signing key.
ForeignOwner(o) ==
    /\ o.kind = "save_financial_data"
    /\ o.key \in Keys
    /\ Lower(o.rec.userDID) # Lower(from_key_address(o.key))

\* C38: the save endpoint rejects a request whose record names an owner other
\* than the address of the signing key, letter case aside, before any save
\* and any ledger write; a pointer anchored through the endpoint is anchored
\* under the account that owns the saved record.
C38_ForeignOwnerRejected ==
    \A p \in live :
        LET o == ops[p] IN
        /\ ForeignOwner(o)
           => /\ o.pc = "done"
              /\ o.result.tag = "raise"
              /\ Events(o) = {}
              /\ files = o.pre.files
              /\ pointer = o.pre.pointer
              /\ profile = o.pre.profile
        /\ (o.kind = "save_financial_data" /\ "anchor" \in Events(o))
           => /\ o.key = AcctOf(o.rec.userDID)
              /\ pointer[o.key] = o.hash
              /\ \A a \in Accounts \ {o.key} : pointer[a] = o.pre.pointer[a]

C38_Witness ==
    \E p \in live :
        /\ ForeignOwner(ops[p])
        /\ ops[p].result.exc = "HTTPException"
        /\ files[OwnerLower] # NoFile
        /\ pointer[OwnerAcct] # ZeroPointer

=============================================================================
